---- MODULE Spec2Model ----
(***************************************************************************)
(* Sequential decomposition of a process network                           *)
(* (pyomo/network/decomposition.py, class SequentialDecomposition).        *)
(*                                                                         *)
(* Conventions.  Units (graph nodes) are opaque, so they are named by the  *)
(* order in which networkx first sees them: node k is the k-th node of     *)
(* G.nodes, and list(G.nodes) = <<1, ..., G.n>>.  Python indexes from 0,   *)
(* sequences here from 1: a node index or edge index i of the source is    *)
(* i + 1 here.  Edge keys are those of networkx (0, 1, ... per node pair). *)
(* Python's None is written None (-1) where the other values are naturals. *)
(***************************************************************************)
EXTENDS Integers, Sequences, FiniteSets, TLC

VARIABLES G, ret, run

vars == <<G, ret, run>>

None == -1

(* ---------------------------------------------------------------------- *)
(* Bounds of the model                                                     *)
(* ---------------------------------------------------------------------- *)
SccMaxNodes == 4
SccMaxEdges == 6
OrderMaxNodes == 4
OrderMaxEdges == 5
OrderMaxTears == 1
RunMaxNodes == 2
RunMaxEdges == 3
RunMaxIter == 1
RunMaxUserFixed == 1
TearMaxNodes == 3
TearMaxEdges == 5
MipWindow == 2
MethodMaxNodes == 2
MethodMaxEdges == 2
MethodMaxIter == 2
GuessMaxNodes == 2
GuessMaxEdges == 2
GuessMaxIter == 1
PassMaxFree == 2
OptionMaxNodes == 2
OptionMaxEdges == 2
OptionMaxIter == 1
ErrMaxLen == 2
ErrMaxVal == 2
GainMaxGuess == 2
GainMaxOffset == 1
AccelMaxVal == 4
AdjMaxNodes == 2
AdjMaxEdges == 3
RootsMaxNodes == 3
RootsMaxEdges == 2
RootsMaxTears == 1
RootsMaxRoots == 2
CacheMaxNodes == 2
CacheMaxEdges == 2
SccTearMaxNodes == 4
SccTearMaxEdges == 4
FixedMaxNodes == 2
FixedMaxEdges == 2
FixedMaxIter == 1

(* ---------------------------------------------------------------------- *)
(* Small helpers                                                           *)
(* ---------------------------------------------------------------------- *)
Min2(a, b) == IF a <= b THEN a ELSE b

Max2(a, b) == IF a >= b THEN a ELSE b

Range(s) == {s[i] : i \in 1..Len(s)}

(* The list with the elements f[1], ..., f[Len(f)], as an explicit tuple.  *)
List(f) == SubSeq(f, 1, Len(f))

RECURSIVE SortedSeq(_)
(* The members of a finite set of integers in increasing order: the order  *)
(* in which CPython iterates over a set of small non-negative integers.    *)
SortedSeq(S) ==
    IF S = {} THEN <<>>
    ELSE LET m == CHOOSE x \in S : \A y \in S : x <= y
         IN <<m>> \o SortedSeq(S \ {m})

RECURSIVE SumUpTo(_, _)
SumUpTo(s, n) == IF n = 0 THEN 0 ELSE s[n] + SumUpTo(s, n - 1)

(* sum(s)                                                                  *)
SeqSum(s) == SumUpTo(s, Len(s))

RECURSIVE SetMax(_)
SetMax(S) ==
    IF S = {} THEN 0
    ELSE LET x == CHOOSE y \in S : TRUE IN Max2(x, SetMax(S \ {x}))

(* Position of the first occurrence of x in s (list.index), 0 if absent.   *)
IndexOf(s, x) ==
    IF \E i \in 1..Len(s) : s[i] = x
    THEN CHOOSE i \in 1..Len(s) : s[i] = x /\ \A j \in 1..(i - 1) : s[j] # x
    ELSE 0

(* ---------------------------------------------------------------------- *)
(* The graph: a networkx MultiDiGraph                                       *)
(*   G.n      number of nodes; G.nodes iterates 1..G.n                      *)
(*   G.edges  the edges <<src, dst, key>> in the order G.edges iterates:    *)
(*            by source in node order, then by successor in the order the   *)
(*            successor was first connected, then by key.                   *)
(* ---------------------------------------------------------------------- *)
EmptyGraph == [n |-> 0, edges |-> <<>>]

number_of_edges(g) == Len(g.edges)

(* G.add_edge(src, dest, arc=arc) as called by create_graph.               *)
add_edge(g, u, v) ==
    LET E    == g.edges
        same == {i \in 1..Len(E) : E[i][1] = u /\ E[i][2] = v}
        key  == Cardinality(same)
        pos  == IF same # {} THEN SetMax(same)
                ELSE Cardinality({i \in 1..Len(E) : E[i][1] <= u})
    IN [n     |-> Max2(g.n, Max2(u, v)),
        edges |-> SubSeq(E, 1, pos) \o <<(<<u, v, key>>)>>
                    \o SubSeq(E, pos + 1, Len(E))]

(* G.out_edges(node, keys=True): the edges leaving node, in G.edges order. *)
out_edges(g, node) == SelectSeq(g.edges, LAMBDA e : e[1] = node)

(* G.in_edges(node, keys=True).  networkx iterates the predecessors in the *)
(* order they were first connected; the model lists them in G.edges order  *)
(* (every consumer of the reverse adjacency reads it as a set).            *)
in_edges(g, node) == SelectSeq(g.edges, LAMBDA e : e[2] = node)

idx_to_node(g) == List([i \in 1..g.n |-> i])

(* node_to_idx(G)[node]                                                    *)
node_to_idx(g, node) == IndexOf(idx_to_node(g), node)

idx_to_edge(g) == g.edges

edge_to_idx(g, e) == IndexOf(g.edges, e)

(* ---------------------------------------------------------------------- *)
(* adj_lists                                                               *)
(* ---------------------------------------------------------------------- *)
(* n2i[node] of adj_lists: the index given to node (the last one, were a   *)
(* node listed twice).                                                     *)
n2i(nodes, node) == CHOOSE i \in 1..Len(nodes) : nodes[i] = node /\ \A j \in (i + 1)..Len(nodes) : nodes[j] # node

RECURSIVE adj_row_seen_first(_, _, _, _, _, _, _)
(* An adj_row that takes a neighbour for seen at its first edge, excluded  *)
(* or not.                                                                 *)
adj_row_seen_first(es, other, nodes, exclude, multi, seen, acc) ==
    IF es = <<>> THEN acc
    ELSE LET edge == Head(es)
             nb   == edge[other]
             key  == edge[3]
         IN IF ~multi /\ nb \in seen
            THEN adj_row_seen_first(Tail(es), other, nodes, exclude, multi, seen, acc)
            ELSE IF nb \in Range(nodes) /\ edge \notin exclude
            THEN adj_row_seen_first(Tail(es), other, nodes, exclude, multi, seen \cup {nb},
                                    Append(acc, IF multi THEN <<n2i(nodes, nb), key>>
                                                         ELSE n2i(nodes, nb)))
            ELSE adj_row_seen_first(Tail(es), other, nodes, exclude, multi, seen \cup {nb}, acc)

RECURSIVE adj_row(_, _, _, _, _, _, _)
(* One pass of "for edge in G.out_edges(node)" (other = 2) or              *)
(* "for edge in G.in_edges(node)" (other = 1) of adj_lists.                *)
adj_row(es, other, nodes, exclude, multi, seen, acc) ==
    IF es = <<>> THEN acc
    ELSE LET edge == Head(es)
             nb   == edge[other]
             key  == edge[3]
         IN IF ~multi /\ nb \in seen
            THEN adj_row(Tail(es), other, nodes, exclude, multi, seen, acc)
            ELSE IF nb \in Range(nodes) /\ edge \notin exclude
            THEN adj_row(Tail(es), other, nodes, exclude, multi, seen \cup {nb},
                         Append(acc, IF multi THEN <<n2i(nodes, nb), key>>
                                              ELSE n2i(nodes, nb)))
            ELSE adj_row(Tail(es), other, nodes, exclude, multi, seen, acc)

(* adj_lists(G, excludeEdges, nodes, multi) with nodes given.              *)
adj_lists(g, excludeEdges, nodes, multi) ==
    LET exclude == {g.edges[ei] : ei \in Range(excludeEdges)}
    IN [i2n  |-> nodes,
        adj  |-> List([i \in 1..Len(nodes) |->
                    adj_row(out_edges(g, nodes[i]), 2, nodes, exclude, multi, {}, <<>>)]),
        adjR |-> List([i \in 1..Len(nodes) |->
                    adj_row(in_edges(g, nodes[i]), 1, nodes, exclude, multi, {}, <<>>)])]

(* adj_lists with nodes=None: "nodes = self.idx_to_node(G)".               *)
adj_lists_all(g, excludeEdges, multi) == adj_lists(g, excludeEdges, idx_to_node(g), multi)

(* ---------------------------------------------------------------------- *)
(* tree_order                                                              *)
(* The result is [status, order]: status "ok" with the returned order,     *)
(* "error" for the RuntimeError, "diverges" when the call never returns.   *)
(* ---------------------------------------------------------------------- *)
SuccsOf(adj, S) == UNION {Range(adj[i]) : i \in S}

(* "if roots is None": the nodes that are nobody's successor, ascending.   *)
tree_roots(adj) == SortedSeq({i \in 1..Len(adj) : \A k \in 1..Len(adj) : i \notin Range(adj[k])})

RECURSIVE tree_mark(_, _, _, _)
(* "while len(lst) > 0" of the branch for given roots.  The list of a      *)
(* round is the set of successors of the previous one; it can only become  *)
(* empty within len(adj) rounds, so a list that is still non-empty then    *)
(* lies on a cycle and the loop never ends (mark = None).                  *)
tree_mark(adj, lst, marked, rounds) ==
    IF lst = {} THEN [diverges |-> FALSE, mark |-> marked]
    ELSE IF rounds > Len(adj) THEN [diverges |-> TRUE, mark |-> marked]
    ELSE tree_mark(adj, SuccsOf(adj, lst), marked \cup lst, rounds + 1)

(* A remSet that takes every ancestor for placed, whatever its level.      *)
tree_remSet_every(adjRi, last, mark) == adjRi

(* The set remSet for a candidate with reverse adjacency adjRi: the        *)
(* ancestors placed in the last level and those that are not marked.       *)
tree_remSet(adjRi, last, mark) == {j \in adjRi : j \in last \/ j \notin mark}

RECURSIVE tree_levels(_, _, _, _, _, _, _)
(* "while len(lst) > 0" of tree_order.  mark is the set of marked nodes,   *)
(* placed the set of nodes whose ndepth is not None.                       *)
tree_levels(adj, adjR, mark, lst, order, checknodes, placed) ==
    IF lst = <<>> THEN [status |-> "ok", order |-> order]
    ELSE IF checknodes \cap placed # {} THEN [status |-> "error", order |-> <<>>]
    ELSE LET last  == Range(lst)
             nadjR == [i \in DOMAIN adjR |->
                         IF i \in checknodes
                         THEN adjR[i] \ tree_remSet(adjR[i], last, mark)
                         ELSE adjR[i]]
             add   == {i \in checknodes : nadjR[i] = {}}
         IN tree_levels(adj, nadjR, mark, SortedSeq(add), Append(order, lst),
                        (checknodes \ add) \cup SuccsOf(adj, add), placed \cup add)

(* tree_order(adj, adjR, roots=None)                                       *)
tree_order(adj, adjR) ==
    LET roots == tree_roots(adj)
    IN tree_levels(adj, [i \in 1..Len(adjR) |-> Range(adjR[i])], 1..Len(adj),
                   roots, <<>>, SuccsOf(adj, Range(roots)), {})

(* tree_order(adj, adjR, roots) with roots given; a root that is no index  *)
(* of adj raises IndexError at "mark[i] = True".                           *)
tree_order_roots(adj, adjR, roots) ==
    LET m == tree_mark(adj, Range(roots), {}, 0)
    IN IF \E k \in 1..Len(roots) : roots[k] \notin 1..Len(adj) THEN [status |-> "error", order |-> <<>>]
       ELSE IF m.diverges THEN [status |-> "diverges", order |-> <<>>]
       ELSE tree_levels(adj, [i \in 1..Len(adjR) |-> Range(adjR[i])], m.mark,
                        roots, <<>>, SuccsOf(adj, Range(roots)), {})

(* ---------------------------------------------------------------------- *)
(* sub_graph_edges                                                         *)
(* ---------------------------------------------------------------------- *)
(* [e, ie, oe]: the indexes of the edges inside, into and out of nodes.    *)
sub_graph_edges(g, nodes) ==
    LET idx == 1..number_of_edges(g)
        in(x) == x \in Range(nodes)
    IN [e  |-> SortedSeq({i \in idx : in(g.edges[i][1]) /\ in(g.edges[i][2])}),
        ie |-> SortedSeq({i \in idx : ~in(g.edges[i][1]) /\ in(g.edges[i][2])}),
        oe |-> SortedSeq({i \in idx : in(g.edges[i][1]) /\ ~in(g.edges[i][2])})]

(* ---------------------------------------------------------------------- *)
(* scc_calculation_order                                                   *)
(* ---------------------------------------------------------------------- *)
(* The loops over j, ine and oute for one i: the first match sets done,    *)
(* which breaks out of the loop over ine and then out of the loop over j,  *)
(* so SCC i records the first j (only) that has an out edge among its in   *)
(* edges; 0 when there is none.                                            *)
scc_first_pred(ie, oe, i) ==
    LET js == {j \in 1..Len(oe) : Range(ie[i]) \cap Range(oe[j]) # {}}
    IN IF js = {} THEN 0 ELSE CHOOSE j \in js : \A k \in js : j <= k

scc_adj(sccNodes, ie, oe) ==
    LET N == Len(sccNodes)
    IN [adj  |-> List([j \in 1..N |-> SortedSeq({i \in 1..N : scc_first_pred(ie, oe, i) = j})]),
        adjR |-> List([i \in 1..N |-> IF scc_first_pred(ie, oe, i) = 0 THEN <<>>
                                       ELSE <<scc_first_pred(ie, oe, i)>>])]

scc_calculation_order(sccNodes, ie, oe) ==
    LET a == scc_adj(sccNodes, ie, oe) IN tree_order(a.adj, a.adjR)

(* ---------------------------------------------------------------------- *)
(* scc_collect                                                             *)
(* The state of the search: ndepth, back (None = -1), the node stack stk   *)
(* and the list strngComps of components found so far.                     *)
(* ---------------------------------------------------------------------- *)
RECURSIVE sc_pop(_, _, _)
(* "while True: w = stk.pop(); scomp.append(i2n[w]); if w == v: break"     *)
sc_pop(stk, v, scomp) ==
    LET w == stk[Len(stk)]
        s == SubSeq(stk, 1, Len(stk) - 1)
    IN IF w = v THEN [stk |-> s, scomp |-> Append(scomp, w)]
       ELSE sc_pop(s, v, Append(scomp, w))

RECURSIVE sc(_, _, _, _)
RECURSIVE sc_loop(_, _, _, _, _)
(* The recursive sub-function sc(v, stk, depth, strngComps).  depth is a   *)
(* by-value parameter: the value sc returns is dropped by its callers, so  *)
(* ndepth[v] is the depth of v in the search tree.                         *)
sc(adj, v, depth, st) ==
    LET st1 == [st EXCEPT !.ndepth[v] = depth, !.back[v] = depth, !.stk = Append(@, v)]
        st2 == sc_loop(adj, v, 1, depth + 1, st1)
    IN IF st2.back[v] = st2.ndepth[v]
       THEN LET p == sc_pop(st2.stk, v, <<>>)
            IN [st2 EXCEPT !.stk = p.stk, !.strngComps = Append(@, p.scomp)]
       ELSE st2

(* "for w in adj[v]" from its k-th element on.                             *)
sc_loop(adj, v, k, depth, st) ==
    IF k > Len(adj[v]) THEN st
    ELSE LET w == adj[v][k]
         IN IF st.ndepth[w] = None
            THEN LET s2 == sc(adj, w, depth, st)
                 IN sc_loop(adj, v, k + 1, depth,
                            [s2 EXCEPT !.back[v] = Min2(s2.back[w], s2.back[v])])
            ELSE IF w \in Range(st.stk)
            THEN sc_loop(adj, v, k + 1, depth,
                         [st EXCEPT !.back[v] = Min2(st.back[w], st.back[v])])
            ELSE sc_loop(adj, v, k + 1, depth, st)

RECURSIVE scc_roots(_, _, _)
(* "for v in range(len(i2n)): if ndepth[v] == None: sc(v, stk, 0, ...)"    *)
scc_roots(adj, v, st) ==
    IF v > Len(adj) THEN st
    ELSE scc_roots(adj, v + 1, IF st.ndepth[v] = None THEN sc(adj, v, 0, st) ELSE st)

(* The list strngComps (node indexes are the nodes: i2n is the identity    *)
(* when nodes is None).                                                    *)
scc_components(g, excludeEdges) ==
    LET adj == adj_lists_all(g, excludeEdges, FALSE).adj
        st0 == [ndepth |-> List([i \in 1..g.n |-> None]), back |-> List([i \in 1..g.n |-> None]),
                stk |-> <<>>, strngComps |-> <<>>]
    IN scc_roots(adj, 1, st0).strngComps

(* scc_collect(G, excludeEdges): sccNodes, sccEdges, sccOrder, outEdges.   *)
(* sccOrder is tree_order's result, [status, order].                       *)
scc_collect(g, excludeEdges) ==
    LET comps == scc_components(g, excludeEdges)
        sge   == List([i \in 1..Len(comps) |-> sub_graph_edges(g, comps[i])])
        ie    == List([i \in 1..Len(comps) |-> sge[i].ie])
        oe    == List([i \in 1..Len(comps) |-> sge[i].oe])
    IN [sccNodes |-> comps,
        sccEdges |-> List([i \in 1..Len(comps) |-> sge[i].e]),
        sccOrder |-> scc_calculation_order(comps, ie, oe),
        outEdges |-> oe]

(* A check_tear_set that accepts every tear set.                           *)
check_tear_set_always(g, tset) == TRUE

(* check_tear_set(G, tset)                                                 *)
check_tear_set(g, tset) ==
    LET sccNodes == scc_collect(g, tset).sccNodes
    IN \A i \in 1..Len(sccNodes) : ~(Len(sccNodes[i]) > 1)

(* ---------------------------------------------------------------------- *)
(* all_cycles                                                              *)
(* The state of the search: adj (pruned as the search goes), pointStack    *)
(* (<<node index, key>> pairs), the set mark of marked nodes, markStack    *)
(* and the list cycles.                                                    *)
(* ---------------------------------------------------------------------- *)
RECURSIVE seq_remove(_, _)
(* list.remove(x): s without its first x.                                  *)
seq_remove(s, x) ==
    IF s = <<>> THEN <<>>
    ELSE IF Head(s) = x THEN Tail(s)
    ELSE <<Head(s)>> \o seq_remove(Tail(s), x)

(* An unmarking that pops v alone and leaves the marks as they are.        *)
unmark_to_keep(markStack, mark, v) == [markStack |-> SelectSeq(markStack, LAMBDA u : u # v), mark |-> mark]

RECURSIVE unmark_to(_, _, _)
(* "while markStack[-1] != v: u = markStack.pop(); mark[u] = False", then  *)
(* "markStack.pop(); mark[v] = False".                                     *)
unmark_to(markStack, mark, v) ==
    LET u == markStack[Len(markStack)]
        r == SubSeq(markStack, 1, Len(markStack) - 1)
    IN IF u = v THEN [markStack |-> r, mark |-> mark \ {v}]
       ELSE unmark_to(r, mark \ {u}, v)

RECURSIVE backtrack(_, _, _, _)
RECURSIVE backtrack_loop(_, _, _, _, _)
(* backtrack(v, pre_key) in the pass for start node ni: [f, st].           *)
backtrack(ni, v, pre_key, st) ==
    LET st1 == [st EXCEPT !.pointStack = Append(@, <<v, pre_key>>),
                          !.mark = @ \cup {v},
                          !.markStack = Append(@, v)]
        r   == backtrack_loop(ni, v, st1.adj[v], FALSE, st1)
        st2 == r.st
        st3 == IF r.f
               THEN LET u == unmark_to(st2.markStack, st2.mark, v)
                    IN [st2 EXCEPT !.markStack = u.markStack, !.mark = u.mark]
               ELSE st2
    IN [f |-> r.f,
        st |-> [st3 EXCEPT !.pointStack = SubSeq(@, 1, Len(@) - 1)]]

(* "for si, key in sucs" over the rest of the copy sucs of adj[v].         *)
backtrack_loop(ni, v, sucs, f, st) ==
    IF sucs = <<>> THEN [f |-> f, st |-> st]
    ELSE LET si  == Head(sucs)[1]
             key == Head(sucs)[2]
         IN IF si < ni
            THEN backtrack_loop(ni, v, Tail(sucs), f,
                                [st EXCEPT !.adj[v] = seq_remove(@, <<si, key>>)])
            ELSE IF si = ni
            THEN backtrack_loop(ni, v, Tail(sucs), TRUE,
                                [st EXCEPT !.cycles = Append(@, Append(st.pointStack, <<si, key>>))])
            ELSE IF si \notin st.mark
            THEN LET g == backtrack(ni, si, key, st)
                 IN backtrack_loop(ni, v, Tail(sucs), f \/ g.f, g.st)
            ELSE backtrack_loop(ni, v, Tail(sucs), f, st)

RECURSIVE all_cycles_from(_, _)
(* "for ni in range(len(i2n))": backtrack(ni), then the marks are cleared. *)
all_cycles_from(ni, st) ==
    IF ni > Len(st.adj) THEN st
    ELSE all_cycles_from(ni + 1,
            [backtrack(ni, ni, None, st).st EXCEPT !.mark = {}, !.markStack = <<>>])

(* all_cycles(G): [cycleNodes, cycleEdges].                                *)
all_cycles(g) ==
    LET a      == adj_lists_all(g, <<>>, TRUE)
        st0    == [adj |-> a.adj, pointStack |-> <<>>, mark |-> {},
                   markStack |-> <<>>, cycles |-> <<>>]
        cycles == all_cycles_from(1, st0).cycles
    IN [cycleNodes |-> List([c \in 1..Len(cycles) |->
                          List([i \in 1..(Len(cycles[c]) - 1) |-> a.i2n[cycles[c][i][1]]])]),
        cycleEdges |-> List([c \in 1..Len(cycles) |->
                          List([i \in 1..(Len(cycles[c]) - 1) |->
                             edge_to_idx(g, <<a.i2n[cycles[c][i][1]],
                                              a.i2n[cycles[c][i + 1][1]],
                                              cycles[c][i + 1][2]>>)])])]

(* cycle_edge_matrix(G): the incidence matrix A (A[c][e] = 1 iff edge e is *)
(* in cycle c), cycleNodes and cycleEdges.                                 *)
cycle_edge_matrix(g) ==
    LET ac == all_cycles(g)
    IN [A |-> List([c \in 1..Len(ac.cycleEdges) |->
                 List([e \in 1..number_of_edges(g) |->
                    IF e \in Range(ac.cycleEdges[c]) THEN 1 ELSE 0])]),
        cycleNodes |-> ac.cycleNodes,
        cycleEdges |-> ac.cycleEdges]

(* ---------------------------------------------------------------------- *)
(* tear_upper_bound                                                        *)
(* The state of the search: depths (None = -1) and the list tearSet.       *)
(* ---------------------------------------------------------------------- *)
RECURSIVE cyc(_, _, _, _)
RECURSIVE cyc_loop(_, _, _, _, _)
(* The recursive function cyc(node, depth).                                *)
cyc(g, node, depth, st) ==
    cyc_loop(g, node, out_edges(g, node), depth + 1, [st EXCEPT !.depths[node] = depth])

(* "for edge in G.out_edges(node, keys=True)" over the rest es.            *)
cyc_loop(g, node, es, depth, st) ==
    IF es = <<>> THEN st
    ELSE LET suc == Head(es)[2]
         IN IF st.depths[suc] = None
            THEN cyc_loop(g, node, Tail(es), depth, cyc(g, suc, depth, st))
            ELSE IF st.depths[suc] < st.depths[node]
            THEN cyc_loop(g, node, Tail(es), depth,
                          [st EXCEPT !.tearSet = Append(@, edge_to_idx(g, Head(es)))])
            ELSE cyc_loop(g, node, Tail(es), depth, st)

RECURSIVE tear_ub_roots(_, _, _)
(* "for node in G.nodes: if depths[node] is None: cyc(node, 0)"            *)
tear_ub_roots(g, node, st) ==
    IF node > g.n THEN st
    ELSE tear_ub_roots(g, node + 1, IF st.depths[node] = None THEN cyc(g, node, 0, st) ELSE st)

tear_upper_bound(g) ==
    tear_ub_roots(g, 1, [depths |-> List([i \in 1..g.n |-> None]), tearSet |-> <<>>]).tearSet

(* ---------------------------------------------------------------------- *)
(* select_tear_heuristic                                                   *)
(* y vectors are functions from edge indexes to {0, 1}.  The state of the  *)
(* search: upperBound (ub0, ub1) and the list ySet of records              *)
(* [y, maxAy, sumY].                                                       *)
(* ---------------------------------------------------------------------- *)
(* numpy.dot(A, y)                                                         *)
dot(A, y) == List([c \in 1..Len(A) |-> SeqSum([e \in 1..Len(A[c]) |-> A[c][e] * y[e]])])

SeqMaxOf(s) == SetMax(Range(s))

SeqMinOf(s) == CHOOSE x \in Range(s) : \A z \in Range(s) : x <= z

RECURSIVE sear(_, _, _, _, _, _)
RECURSIVE sear_next(_, _, _, _, _, _)
(* The recursive function sear(depth, prevY), from the i-th edge of cycle  *)
(* depth on.                                                               *)
sear(A, cycleEdges, depth, i, prevY, st) ==
    IF i > Len(cycleEdges[depth]) THEN st
    ELSE LET y     == [prevY EXCEPT ![cycleEdges[depth][i]] = 1]
             Ay    == dot(A, y)
             maxAy == SeqMaxOf(Ay)
             sumY  == SeqSum(y)
         IN IF maxAy > st.ub0
            THEN sear(A, cycleEdges, depth, i + 1, prevY, st)
            ELSE IF maxAy = st.ub0 /\ sumY > st.ub1
            THEN sear(A, cycleEdges, depth, i + 1, prevY, st)
            ELSE IF SeqMinOf(Ay) > 0
            THEN LET b == IF maxAy < st.ub0 THEN [ub0 |-> maxAy, ub1 |-> sumY]
                          ELSE IF sumY < st.ub1 THEN [ub0 |-> st.ub0, ub1 |-> sumY]
                          ELSE [ub0 |-> st.ub0, ub1 |-> st.ub1]
                 IN sear(A, cycleEdges, depth, i + 1, prevY,
                         [ub0 |-> b.ub0, ub1 |-> b.ub1,
                          ySet |-> Append(st.ySet, [y |-> y, maxAy |-> maxAy, sumY |-> sumY])])
            ELSE sear(A, cycleEdges, depth, i + 1, prevY,
                      sear_next(A, cycleEdges, depth + 1, y, Ay, st))

(* "for j in range(depth + 1, nr): if Ay[j] == 0: sear(j, y)"              *)
sear_next(A, cycleEdges, j, y, Ay, st) ==
    IF j > Len(A) THEN st
    ELSE sear_next(A, cycleEdges, j + 1, y, Ay,
                   IF Ay[j] = 0 THEN sear(A, cycleEdges, j, 1, y, st) ELSE st)

RECURSIVE dedupe(_, _)
(* "Check for duplicates and delete them": the first of equal y is kept.   *)
dedupe(ySet, acc) ==
    IF ySet = <<>> THEN acc
    ELSE dedupe(Tail(ySet),
                IF \E k \in 1..Len(acc) : acc[k].y = Head(ySet).y THEN acc
                ELSE Append(acc, Head(ySet)))

(* The search of select_tear_heuristic from the upper bound tearUB on, for *)
(* a graph with at least one cycle: [es, ub0, ub1].                        *)
heuristic_search(g, tearUB, cem) ==
    LET A      == cem.A
        nE     == number_of_edges(g)
        y_ub   == List([e \in 1..nE |-> IF e \in Range(tearUB) THEN 1 ELSE 0])
        st0    == [ub0 |-> SeqMaxOf(dot(A, y_ub)), ub1 |-> SeqSum(y_ub), ySet |-> <<>>]
        st     == sear(A, cem.cycleEdges, 1, 1, List([e \in 1..nE |-> 0]), st0)
        kept   == SelectSeq(st.ySet, LAMBDA r : ~(r.maxAy > st.ub0 \/ (r.maxAy = st.ub0 /\ r.sumY > st.ub1)))
        uniq   == dedupe(kept, <<>>)
    IN [es  |-> List([k \in 1..Len(uniq) |-> SortedSeq({e \in 1..nE : uniq[k].y[e] = 1})]),
        ub0 |-> st.ub0,
        ub1 |-> st.ub1]

(* select_tear_heuristic(G): the list of tear sets and the two bounds.     *)
select_tear_heuristic(g) ==
    LET tearUB == tear_upper_bound(g)
        cem    == cycle_edge_matrix(g)
    IN IF Len(cem.A) = 0 THEN [es |-> <<(<<>>)>>, ub0 |-> 0, ub1 |-> 0]
       ELSE heuristic_search(g, tearUB, cem)

(* ---------------------------------------------------------------------- *)
(* select_tear_mip_model and select_tear_mip                               *)
(* The model has a binary variable per edge and the variable               *)
(* max_cycle_tears (mct), a Var() without domain or bounds.  Its points    *)
(* are taken in a window: every y, and mct an integer from -MipWindow up   *)
(* to the number of edges (no constraint can ask for more).                *)
(* ---------------------------------------------------------------------- *)
LexWeight == 1000

(* A con_min that asks for no tear at all.                                 *)
mip_cycle_min_none(ecyc, y) == SeqSum([i \in 1..Len(ecyc) |-> y[ecyc[i]]]) >= 0

(* "every cycle must have at least 1 tear": con_min of cycle ecyc.         *)
mip_cycle_min(ecyc, y) == SeqSum([i \in 1..Len(ecyc) |-> y[ecyc[i]]]) >= 1

(* "mct >= cycle_sum": con_mct of cycle ecyc.                              *)
mip_cycle_mct(ecyc, y, mct) == mct >= SeqSum([i \in 1..Len(ecyc) |-> y[ecyc[i]]])

mip_objective(y, mct) == LexWeight * mct + SeqSum(y)

(* The points of the window that satisfy every constraint of the model.    *)
mip_feasible(g, cycleEdges) ==
    {p \in [y : [1..number_of_edges(g) -> {0, 1}], mct : (0 - MipWindow)..number_of_edges(g)] :
        \A c \in 1..Len(cycleEdges) :
            mip_cycle_min(cycleEdges[c], p.y) /\ mip_cycle_mct(cycleEdges[c], p.y, p.mct)}

(* The points the solver may return: the minimizers of the objective.      *)
mip_minimizers(F) == {p \in F : \A q \in F : mip_objective(p.y, p.mct) <= mip_objective(q.y, q.mct)}

(* A minimum at the lower edge of the window is no minimum of the model:   *)
(* no constraint holds mct there (a cycle sum is never negative), so the   *)
(* objective decreases without bound.                                      *)
mip_unbounded(F) == \E p \in mip_minimizers(F) : p.mct = 0 - MipWindow

(* "collect final list by adding every edge with a True binary var"        *)
mip_tset(y) == SortedSeq({i \in DOMAIN y : y[i] = 1})

(* The outcomes of select_tear_mip(G): with an optimum, the tear set of    *)
(* any minimizer; without one the solver fails or leaves any feasible      *)
(* point's values in the variables.                                        *)
select_tear_mip(g) ==
    LET F == mip_feasible(g, all_cycles(g).cycleEdges)
    IN IF mip_unbounded(F)
       THEN {[status |-> "error", tset |-> <<>>]} \cup {[status |-> "unbounded", tset |-> mip_tset(p.y)] : p \in F}
       ELSE {[status |-> "optimal", tset |-> mip_tset(p.y)] : p \in mip_minimizers(F)}

(* ---------------------------------------------------------------------- *)
(* tear_set                                                                *)
(* options["tear_set"] is [given |-> FALSE] for None and                   *)
(* [given |-> TRUE, arcs |-> the edge indexes of the arcs listed]          *)
(* otherwise.  The outcomes are [status, tset]: "ok" with the list that is *)
(* returned, "error" when the call raises.                                 *)
(* ---------------------------------------------------------------------- *)
tear_set(g, tear_set_option, select_tear_method) ==
    IF tear_set_option.given
    THEN IF ~check_tear_set(g, tear_set_option.arcs)
         THEN {[status |-> "error", tset |-> <<>>]}
         ELSE {[status |-> "ok", tset |-> tear_set_option.arcs]}
    ELSE IF select_tear_method = "mip"
    THEN {[status |-> IF r.status = "error" THEN "error" ELSE "ok", tset |-> r.tset] : r \in select_tear_mip(g)}
    ELSE IF select_tear_method = "heuristic"
    THEN LET h == select_tear_heuristic(g)
         IN IF Len(h.es) = 0 THEN {[status |-> "error", tset |-> <<>>]}
            ELSE {[status |-> "ok", tset |-> h.es[1]]}
    ELSE {[status |-> "error", tset |-> <<>>]}

(* ---------------------------------------------------------------------- *)
(* calculation_order                                                       *)
(* tset is the tear set held by the cache; roots is [given |-> FALSE] for  *)
(* None and [given |-> TRUE, nodes |-> the list] otherwise; nodes is the   *)
(* list of nodes to consider.  The result is tree_order's, with the        *)
(* indexes converted to nodes.                                             *)
(* ---------------------------------------------------------------------- *)
calculation_order(g, tset, roots, nodes) ==
    LET a == adj_lists(g, tset, nodes, FALSE)
        rootsIndex == IF roots.given
                      THEN List([k \in 1..Len(roots.nodes) |-> node_to_idx(g, roots.nodes[k])])
                      ELSE <<>>
        r == IF roots.given THEN tree_order_roots(a.adj, a.adjR, rootsIndex)
             ELSE tree_order(a.adj, a.adjR)
    IN [status |-> r.status,
        order  |-> List([i \in 1..Len(r.order) |->
                     List([j \in 1..Len(r.order[i]) |-> a.i2n[r.order[i][j]]])])]

(* ---------------------------------------------------------------------- *)
(* Reference notions the claims are stated with                            *)
(* ---------------------------------------------------------------------- *)
(* The edges of g that are not excluded, as <<src, dst>> pairs.            *)
Arcs(g, excl) == {<<g.edges[i][1], g.edges[i][2]>> : i \in (1..Len(g.edges)) \ excl}

RECURSIVE Closure(_, _)
Closure(R, n) ==
    LET R2 == R \cup {<<a, c>> \in (1..n) \X (1..n) : \E b \in 1..n : <<a, b>> \in R /\ <<b, c>> \in R}
    IN IF R2 = R THEN R ELSE Closure(R2, n)

(* u reaches v along one or more edges.                                    *)
Reach(g, excl) == Closure(Arcs(g, excl), g.n)

MutuallyReachable(R, u, v) == u = v \/ (<<u, v>> \in R /\ <<v, u>> \in R)

(* No directed cycle, self-loops included.                                 *)
IsDAG(g, excl) == \A u \in 1..g.n : <<u, u>> \notin Reach(g, excl)

(* ---------------------------------------------------------------------- *)
(* Specification: graphs built by create_graph, and calls on them          *)
(* ---------------------------------------------------------------------- *)
NoCall == [op |-> "none"]

(* No run of the driver has started.                                       *)
NoRun ==
    [pc |-> "idle", option |-> [given |-> FALSE], select_tear_method |-> "mip", tset |-> <<>>, solve_tears |-> FALSE,
     iterLim |-> 0, tear_method |-> "Direct", tol_type |-> "abs", guesses |-> <<>>, default_guess |-> None,
     user_fixed |-> {}, fixed |-> {}, driver_fixed |-> {}, src_val |-> <<>>, dest_val |-> <<>>,
     ledger |-> <<>>, cache |-> {}, order |-> <<>>, ignore |-> {}, use_guesses |-> FALSE,
     then |-> "idle", sccNodes |-> <<>>, sccEdges |-> <<>>, outEdges |-> <<>>,
     sccs |-> <<>>, sccIndex |-> 0, tears |-> <<>>, scc_order |-> <<>>, itercount |-> 0,
     x |-> <<>>, x_prev |-> <<>>, gofx_prev |-> <<>>, passes |-> 0, ended |-> "", log |-> <<>>]

Init == G = EmptyGraph /\ ret = NoCall /\ run = NoRun

(* One iteration of create_graph's loop over the arcs of the model: the    *)
(* arc goes from unit u to unit v, either of which may be new.             *)
AddArc(u, v, maxNodes, maxEdges) ==
    /\ ret = NoCall
    /\ run = NoRun
    /\ number_of_edges(G) < maxEdges
    /\ u <= Min2(G.n + 1, maxNodes)
    /\ v <= Min2(Max2(G.n, u) + 1, maxNodes)
    /\ G' = add_edge(G, u, v)
    /\ UNCHANGED <<ret, run>>

(* The lists of edge indexes a caller may pass as excludeEdges or tset.    *)
EdgeLists(g, maxLen) == {SortedSeq(S) : S \in {T \in SUBSET (1..number_of_edges(g)) : Cardinality(T) <= maxLen}}

(* options["tear_set"]: None, or a list of at most maxLen arcs.            *)
TearSetOptions(g, maxLen) == {[given |-> FALSE]} \cup {[given |-> TRUE, arcs |-> a] : a \in EdgeLists(g, maxLen)}

Call_scc_collect(excludeEdges) ==
    /\ ret = NoCall
    /\ run = NoRun
    /\ G.n > 0
    /\ ret' = [op |-> "scc_collect", excludeEdges |-> excludeEdges, val |-> scc_collect(G, excludeEdges)]
    /\ UNCHANGED <<G, run>>

NextScc ==
    \/ \E u, v \in 1..SccMaxNodes : AddArc(u, v, SccMaxNodes, SccMaxEdges)
    \/ Call_scc_collect(<<>>)

SpecScc == Init /\ [][NextScc]_vars

(* ---------------------------------------------------------------------- *)
(* C1: scc_collect returns exactly the strongly connected components of G  *)
(* minus excludeEdges: two nodes are in the same returned component iff    *)
(* each is reachable from the other, and every node lies in exactly one    *)
(* component.                                                              *)
(* ---------------------------------------------------------------------- *)
SccPartitionCorrect ==
    ret.op = "scc_collect" =>
        LET comps == ret.val.sccNodes
            R     == Reach(G, Range(ret.excludeEdges))
        IN /\ \A u \in 1..G.n :
                 Cardinality({<<i, k>> \in (1..Len(comps)) \X (1..G.n) :
                                 k <= Len(comps[i]) /\ comps[i][k] = u}) = 1
           /\ \A u, v \in 1..G.n :
                 (\E i \in 1..Len(comps) : {u, v} \subseteq Range(comps[i]))
                     <=> MutuallyReachable(R, u, v)

(* The levels of order (a list of lists) in which x appears.               *)
LevelsOf(order, x) == {k \in 1..Len(order) : x \in Range(order[k])}

(* How many times x appears in order.                                      *)
Occurrences(order, x) == Cardinality({<<k, m>> \in (1..Len(order)) \X (1..SetMax({Len(order[k]) : k \in 1..Len(order)})) : m <= Len(order[k]) /\ order[k][m] = x})

(* ---------------------------------------------------------------------- *)
(* C2: the sccOrder returned by scc_collect respects the condensation:     *)
(* every SCC index appears in exactly one level, and for every edge from   *)
(* a node of SCC j to a node of a different SCC i, SCC j is in a strictly  *)
(* earlier level than SCC i.                                               *)
(* ---------------------------------------------------------------------- *)
SccOrderRespectsCondensation ==
    ret.op = "scc_collect" =>
        LET comps == ret.val.sccNodes
            order == ret.val.sccOrder.order
            E     == Arcs(G, {})
        IN /\ ret.val.sccOrder.status = "ok"
           /\ \A i \in 1..Len(comps) : Occurrences(order, i) = 1
           /\ \A i, j \in 1..Len(comps) :
                 (i # j /\ \E e \in E : e[1] \in Range(comps[j]) /\ e[2] \in Range(comps[i]))
                     => \A lj \in LevelsOf(order, j), li \in LevelsOf(order, i) : lj < li

(* ---------------------------------------------------------------------- *)
(* Specification: cycle enumeration and tear selection on built graphs     *)
(* ---------------------------------------------------------------------- *)
Call_all_cycles ==
    /\ ret = NoCall
    /\ run = NoRun
    /\ G.n > 0
    /\ ret' = [op |-> "all_cycles", val |-> all_cycles(G)]
    /\ UNCHANGED <<G, run>>

Call_select_tear_heuristic ==
    /\ ret = NoCall
    /\ run = NoRun
    /\ G.n > 0
    /\ ret' = [op |-> "select_tear_heuristic", val |-> select_tear_heuristic(G)]
    /\ UNCHANGED <<G, run>>

Call_select_tear_mip ==
    /\ ret = NoCall
    /\ run = NoRun
    /\ G.n > 0
    /\ \E r \in select_tear_mip(G) : ret' = [op |-> "select_tear_mip", val |-> r]
    /\ UNCHANGED <<G, run>>

(* tear_set(G): options["tear_set"] is a list of arcs the user supplies,   *)
(* or None and the selector named by options["select_tear_method"]         *)
(* computes the set.                                                       *)
Call_tear_set(tear_set_option, select_tear_method) ==
    /\ ret = NoCall
    /\ run = NoRun
    /\ G.n > 0
    /\ \E r \in tear_set(G, tear_set_option, select_tear_method) :
          ret' = [op |-> "tear_set", given |-> tear_set_option.given, val |-> r]
    /\ UNCHANGED <<G, run>>

NextTear ==
    \/ \E u, v \in 1..TearMaxNodes : AddArc(u, v, TearMaxNodes, TearMaxEdges)
    \/ Call_all_cycles
    \/ Call_select_tear_heuristic
    \/ Call_select_tear_mip
    \/ \E o \in TearSetOptions(G, TearMaxEdges), m \in {"mip", "heuristic"} : Call_tear_set(o, m)

SpecTear == Init /\ [][NextTear]_vars

(* The elementary cycles of g as sets of edge indexes: the edge sets of    *)
(* the closed walks that visit no node twice.                              *)
IsCycleWalk(g, w) ==
    /\ \A i \in 1..Len(w) : g.edges[w[i]][2] = g.edges[w[(i % Len(w)) + 1]][1]
    /\ \A i, j \in 1..Len(w) : i # j => g.edges[w[i]][1] # g.edges[w[j]][1]

ElementaryCycles(g) ==
    {Range(w) : w \in {x \in UNION {[1..k -> 1..number_of_edges(g)] : k \in 1..g.n} : IsCycleWalk(g, x)}}

(* ---------------------------------------------------------------------- *)
(* C7: all_cycles returns every elementary cycle exactly once (parallel    *)
(* edges make distinct cycles, a self-loop is a cycle of length 1); in     *)
(* each returned cycle the node list and the edge list have equal length   *)
(* and the k-th edge goes from the k-th node to the next node, the last    *)
(* edge returning to the first node.                                       *)
(* ---------------------------------------------------------------------- *)
AllCyclesCorrect ==
    ret.op = "all_cycles" =>
        LET cn == ret.val.cycleNodes
            ce == ret.val.cycleEdges
        IN /\ Len(cn) = Len(ce)
           /\ \A c \in 1..Len(ce) :
                 /\ Len(cn[c]) = Len(ce[c])
                 /\ Len(ce[c]) >= 1
                 /\ \A k \in 1..Len(ce[c]) :
                       /\ ce[c][k] \in 1..number_of_edges(G)
                       /\ G.edges[ce[c][k]][1] = cn[c][k]
                       /\ G.edges[ce[c][k]][2] = cn[c][(k % Len(cn[c])) + 1]
           /\ {Range(ce[c]) : c \in 1..Len(ce)} = ElementaryCycles(G)
           /\ Len(ce) = Cardinality(ElementaryCycles(G))

(* A multigraph with parallel edges and a self-loop whose cycles were      *)
(* enumerated.                                                             *)
AllCyclesWitness ==
    /\ ret.op = "all_cycles"
    /\ Len(ret.val.cycleEdges) >= 3
    /\ \E i \in 1..number_of_edges(G) : G.edges[i][3] = 1
    /\ \E i \in 1..number_of_edges(G) : G.edges[i][1] = G.edges[i][2]

(* The edge sets that intersect every elementary cycle, and the objective  *)
(* of tear selection: (max number of tears in any cycle, number of tears). *)
IsCover(g, T) == \A c \in ElementaryCycles(g) : T \cap c # {}

MaxCycleTears(g, T) == SetMax({Cardinality(T \cap c) : c \in ElementaryCycles(g)})

LexLeq(a0, a1, b0, b1) == a0 < b0 \/ (a0 = b0 /\ a1 <= b1)

LexOptimal(g, T) ==
    /\ IsCover(g, T)
    /\ \A S \in SUBSET (1..number_of_edges(g)) :
          IsCover(g, S) => LexLeq(MaxCycleTears(g, T), Cardinality(T), MaxCycleTears(g, S), Cardinality(S))

(* ---------------------------------------------------------------------- *)
(* C4: for every graph with at least one elementary cycle (self-loops      *)
(* included) select_tear_heuristic returns a non-empty list of tear sets,  *)
(* each of which intersects every elementary cycle and attains the         *)
(* returned bounds, and the bounds are the lexicographic minimum over all  *)
(* edge sets that intersect every cycle.                                   *)
(* ---------------------------------------------------------------------- *)
HeuristicOptimal ==
    (ret.op = "select_tear_heuristic" /\ ElementaryCycles(G) # {}) =>
        LET es == ret.val.es
        IN /\ Len(es) >= 1
           /\ \A k \in 1..Len(es) :
                 /\ MaxCycleTears(G, Range(es[k])) = ret.val.ub0
                 /\ Len(es[k]) = ret.val.ub1
                 /\ LexOptimal(G, Range(es[k]))

(* ---------------------------------------------------------------------- *)
(* C5: for every graph with at least one elementary cycle and fewer than   *)
(* 1000 edges, the edge set {e : y_e = 1} at any minimizer of the model    *)
(* built by select_tear_mip_model is lexicographically optimal for (max    *)
(* tears in any cycle, number of tears) among the edge sets that           *)
(* intersect every elementary cycle.                                       *)
(* ---------------------------------------------------------------------- *)
MipOptimal ==
    (ret.op = "select_tear_mip" /\ ElementaryCycles(G) # {} /\ number_of_edges(G) < 1000) =>
        /\ ret.val.status = "optimal"
        /\ LexOptimal(G, Range(ret.val.tset))

(* The solver returned a tear set of two edges for a graph in which one    *)
(* edge cannot break every cycle.                                          *)
MipOptimalWitness ==
    /\ ret.op = "select_tear_mip"
    /\ ret.val.status = "optimal"
    /\ Len(ret.val.tset) = 2
    /\ Cardinality(ElementaryCycles(G)) >= 3

(* ---------------------------------------------------------------------- *)
(* C6: for a graph with no directed cycle the tear set obtained under      *)
(* either select_tear_method (the MIP model's optimum, the heuristic's     *)
(* first returned set) is empty.                                           *)
(* ---------------------------------------------------------------------- *)
AcyclicGivesEmptyTearSet ==
    IsDAG(G, {}) =>
        /\ ret.op = "select_tear_heuristic" => (Len(ret.val.es) >= 1 /\ ret.val.es[1] = <<>>)
        /\ ret.op = "select_tear_mip" => (ret.val.status = "optimal" /\ ret.val.tset = <<>>)

(* ---------------------------------------------------------------------- *)
(* C3: whenever tear_set returns (a user-supplied set that passed          *)
(* check_tear_set, or a set computed by a selector), G minus the tear set  *)
(* is a DAG: no directed cycle remains, self-loops included.               *)
(* ---------------------------------------------------------------------- *)
TearSetLeavesDAG ==
    (ret.op = "tear_set" /\ ret.val.status = "ok") => IsDAG(G, Range(ret.val.tset))

(* The same for the sets computed by a selector only.                      *)
SelectedTearSetLeavesDAG ==
    (ret.op = "tear_set" /\ ret.val.status = "ok" /\ ~ret.given) => IsDAG(G, Range(ret.val.tset))

(* ---------------------------------------------------------------------- *)
(* Specification: calculation orders of built graphs                       *)
(* ---------------------------------------------------------------------- *)
(* calculation_order(G, roots) with tset in the cache and nodes=None.      *)
Call_calculation_order(tset, roots) ==
    /\ ret = NoCall
    /\ run = NoRun
    /\ G.n > 0
    /\ ret' = [op |-> "calculation_order", tset |-> tset, roots |-> roots,
               val |-> calculation_order(G, tset, roots, idx_to_node(G))]
    /\ UNCHANGED <<G, run>>

NextOrder ==
    \/ \E u, v \in 1..OrderMaxNodes : AddArc(u, v, OrderMaxNodes, OrderMaxEdges)
    \/ \E tset \in EdgeLists(G, OrderMaxTears) : Call_calculation_order(tset, [given |-> FALSE])
    \/ \E tset \in EdgeLists(G, OrderMaxTears), r \in 1..G.n :
          Call_calculation_order(tset, [given |-> TRUE, nodes |-> <<r>>])

SpecOrder == Init /\ [][NextOrder]_vars

(* The predecessors of v in g minus the edges excl.                        *)
Preds(g, excl, v) == {e[1] : e \in {a \in Arcs(g, excl) : a[2] = v}}

(* ---------------------------------------------------------------------- *)
(* C8: on the adjacency lists of a DAG and with roots=None, tree_order     *)
(* returns levels in which every node appears exactly once, the first      *)
(* level is exactly the set of nodes without predecessors, and every other *)
(* node is in the level one greater than the highest level of its          *)
(* predecessors; hence level(u) < level(v) for every edge u -> v.          *)
(* ---------------------------------------------------------------------- *)
TreeOrderLayersDAG ==
    (ret.op = "calculation_order" /\ ~ret.roots.given /\ IsDAG(G, Range(ret.tset))) =>
        LET order == ret.val.order
            excl  == Range(ret.tset)
        IN /\ ret.val.status = "ok"
           /\ \A v \in 1..G.n : Occurrences(order, v) = 1
           /\ \A v \in 1..G.n :
                 LevelsOf(order, v) = {1 + SetMax(UNION {LevelsOf(order, u) : u \in Preds(G, excl, v)})}
           /\ \A e \in Arcs(G, excl) :
                 \A lu \in LevelsOf(order, e[1]), lv \in LevelsOf(order, e[2]) : lu < lv

(* A DAG in which a node has predecessors in two different levels was      *)
(* ordered, after an edge was excluded.                                    *)
TreeOrderLayersDAGWitness ==
    /\ ret.op = "calculation_order"
    /\ ~ret.roots.given
    /\ IsDAG(G, Range(ret.tset))
    /\ ret.val.status = "ok"
    /\ Len(ret.val.order) >= 3
    /\ \E v \in 1..G.n : \E u, w \in Preds(G, Range(ret.tset), v) :
          LevelsOf(ret.val.order, u) # LevelsOf(ret.val.order, w)

(* ---------------------------------------------------------------------- *)
(* C9: if the adjacency lists given to tree_order contain a directed       *)
(* cycle, the call ends by raising the fatal error, for roots=None and for *)
(* given roots alike; it never returns an order and never fails to         *)
(* terminate.                                                              *)
(* ---------------------------------------------------------------------- *)
TreeOrderRejectsCycles ==
    (ret.op = "calculation_order" /\ ~IsDAG(G, Range(ret.tset))) => ret.val.status = "error"

(* The RuntimeError of tree_order is never raised when roots is None.      *)
TreeOrderNeverRaisesWithoutRoots ==
    (ret.op = "calculation_order" /\ ~ret.roots.given) => ret.val.status = "ok"

(* ---------------------------------------------------------------------- *)
(* The driver: run, run_order, pass_values, solve_tear_direct,             *)
(* solve_tear_wegstein                                                     *)
(*                                                                         *)
(* The network: every arc e of G is a 1-to-1 arc between a port of its own *)
(* on the source unit and a port of its own on the destination unit, each  *)
(* port with one scalar member: the variables SrcVar(e) and DestVar(e),    *)
(* and the equality SrcVar(e) == DestVar(e) on the expanded block.  The    *)
(* values are small integers and None; tol and almost_equal_tol are below  *)
(* 1, so two values are within them exactly when they are equal.           *)
(*                                                                         *)
(* The state of a run (the variable run):                                  *)
(*   pc            where run is: "run_order" inside a call of run_order,   *)
(*                 "after_first_pass", "tear" (at the head of the loop     *)
(*                 over the SCCs), "iterate" (at the head of the loop of   *)
(*                 solve_tear_direct), "wegstein" (in the loop of          *)
(*                 solve_tear_wegstein, after its run_order), "returned",  *)
(*                 "raised"                                                *)
(*   option        options["tear_set"]; tset the tear set                  *)
(*   select_tear_method, solve_tears, iterLim, tear_method, tol_type,      *)
(*   guesses, default_guess                                                *)
(*                 the options; guesses[e] is the guess for DestVar(e)     *)
(*   user_fixed    the variables the user had fixed when run began         *)
(*   fixed         the variables that are fixed                            *)
(*   driver_fixed  the variables the driver has fixed since run began      *)
(*   src_val, dest_val   the values of SrcVar(e) and DestVar(e)            *)
(*   ledger        the dict fixed_inputs of the cache, per unit            *)
(*   cache         the keys of self.cache                                  *)
(*   order, ignore, use_guesses   the units run_order has still to run,    *)
(*                 and its arguments                                       *)
(*   then          where run goes on when run_order returns                *)
(*   sccNodes, sccEdges, outEdges   what scc_collect(G) returned           *)
(*   sccs, sccIndex   the SCCs still to solve, and the current one         *)
(*   tears, scc_order, itercount   the tears and the order of the current  *)
(*                 SCC, and the iteration count of its tear method         *)
(*   x, x_prev, gofx_prev        the vectors of solve_tear_wegstein        *)
(*   passes        the calls of run_order by the current tear method call  *)
(*   ended         how the last tear method call ended: "no_tears",        *)
(*                 "converged" or "cap" (the warning of the iteration      *)
(*                 limit was logged); "" while none has ended              *)
(*   log           what happened in the current phase (the first pass, or  *)
(*                 the current tear method call), in order:                *)
(*                 [ev |-> "call"]  function(unit) is invoked, with the    *)
(*                                  inlet variables that are free, the     *)
(*                                  values of the inlet variables and the  *)
(*                                  ledger set of the unit at that time    *)
(*                 [ev |-> "free"]  the ledger set of the unit is freed    *)
(*                 [ev |-> "pass"]  pass_values is called on an edge       *)
(* ---------------------------------------------------------------------- *)
SrcVar(e) == <<"src", e>>

DestVar(e) == <<"dest", e>>

PortVars(g) == {SrcVar(e) : e \in 1..number_of_edges(g)} \cup {DestVar(e) : e \in 1..number_of_edges(g)}

RECURSIVE Flatten(_)
(* "for lev in order: for unit in lev": the units in the order they run.   *)
Flatten(order) == IF order = <<>> THEN <<>> ELSE Head(order) \o Flatten(Tail(order))

(* var.fix() by the driver.                                                *)
fix(st, var) == [st EXCEPT !.fixed = @ \cup {var}, !.driver_fixed = @ \cup {var}]

(* options["almost_equal_tol"], 1.0E-8: below the unit of the values.      *)
AlmostEqualTol == 0

Abs(a) == IF a >= 0 THEN a ELSE 0 - a

(* a / b for b # 0, where b divides a.                                     *)
Div(a, b) == IF b > 0 THEN a \div b ELSE (0 - a) \div (0 - b)

(* A pass_values that looks at the fixed variables before the kind of the  *)
(* constraint.                                                             *)
pass_values_constraint_fixed_first(con, eq_tol) ==
    IF con.nfree = 0
    THEN IF Abs(con.lower - con.constant) > eq_tol
         THEN [action |-> "raise", val |-> None]
         ELSE [action |-> "accept", val |-> None]
    ELSE IF ~con.equality \/ ~(con.linear /\ con.nfree = 1) THEN [action |-> "raise", val |-> None]
    ELSE [action |-> "fix", val |-> Div(con.lower - con.constant, con.coef)]

(* The body of pass_values' loop for one active constraint con of the      *)
(* expanded block.  con.equality is con.equality; con.nfree is the number  *)
(* of free variables of generate_standard_repn(con.body) (repn.is_fixed()  *)
(* is con.nfree = 0); con.linear is repn.is_linear(); con.lower is         *)
(* value(con.lower), con.constant is repn.constant and con.coef is         *)
(* repn.linear_coefs[0].  The result: "raise", "accept" (continue), or     *)
(* "fix" with the value the single free variable is fixed at and recorded  *)
(* with in fixed_inputs[dest_unit].                                        *)
pass_values_constraint(con, eq_tol) ==
    IF ~con.equality THEN [action |-> "raise", val |-> None]
    ELSE IF con.nfree = 0
    THEN IF Abs(con.lower - con.constant) > eq_tol
         THEN [action |-> "raise", val |-> None]
         ELSE [action |-> "accept", val |-> None]
    ELSE IF ~(con.linear /\ con.nfree = 1) THEN [action |-> "raise", val |-> None]
    ELSE [action |-> "fix", val |-> Div(con.lower - con.constant, con.coef)]

(* The constraint SrcVar(e) - DestVar(e) == 0 of the arc of edge e, whose  *)
(* source variable is fixed.                                               *)
arc_constraint(st, e) ==
    IF DestVar(e) \in st.fixed
    THEN [equality |-> TRUE, nfree |-> 0, linear |-> TRUE, lower |-> 0,
          constant |-> st.src_val[e] - st.dest_val[e], coef |-> 0]
    ELSE [equality |-> TRUE, nfree |-> 1, linear |-> TRUE, lower |-> 0,
          constant |-> st.src_val[e], coef |-> 0 - 1]

(* pass_values(arc, fixed_inputs) for the arc of edge e, whose source      *)
(* variable is fixed: if the destination is fixed too the two values must  *)
(* agree (RuntimeError otherwise), else the destination is fixed at the    *)
(* source's value and recorded in the ledger of the destination unit.      *)
pass_values(g, st, e) ==
    LET r  == pass_values_constraint(arc_constraint(st, e), AlmostEqualTol)
        s1 == [st EXCEPT !.log = Append(@, [ev |-> "pass", edge |-> e])]
    IN IF r.action = "raise" THEN [s1 EXCEPT !.pc = "raised"]
       ELSE IF r.action = "accept" THEN s1
       ELSE [fix(s1, DestVar(e)) EXCEPT !.dest_val[e] = r.val,
                                        !.ledger[g.edges[e][2]] = @ \cup {DestVar(e)}]

(* A pass_edge that passes the values along ignored edges too.             *)
pass_edge_all(g, st, e, ignore) ==
    LET fixed_outputs == {SrcVar(e)} \ st.fixed
        st1 == IF fixed_outputs # {} THEN fix(st, SrcVar(e)) ELSE st
        st2 == pass_values(g, st1, e)
    IN IF st2.pc = "raised" THEN st2 ELSE [st2 EXCEPT !.fixed = @ \ fixed_outputs]

(* One outlet port or one edge: the free source variable is fixed          *)
(* (fixed_outputs), the values are passed unless the edge is ignored, and  *)
(* fixed_outputs is freed again.                                           *)
pass_edge(g, st, e, ignore) ==
    LET fixed_outputs == {SrcVar(e)} \ st.fixed
        st1 == IF fixed_outputs # {} THEN fix(st, SrcVar(e)) ELSE st
        st2 == IF e \notin ignore THEN pass_values(g, st1, e) ELSE st1
    IN IF st2.pc = "raised" THEN st2 ELSE [st2 EXCEPT !.fixed = @ \ fixed_outputs]

RECURSIVE pass_edges(_, _, _, _)
(* pass_edges(G, edges) and pass_tear_direct(G, tears) (ignore = {}), and  *)
(* the loop over the outlet ports of a unit in run_order.                  *)
pass_edges(g, st, edges, ignore) ==
    IF edges = <<>> \/ st.pc = "raised" THEN st
    ELSE pass_edges(g, pass_edge(g, st, Head(edges), ignore), Tail(edges), ignore)

(* The edges into and out of a unit.                                       *)
InIdx(g, unit) == {e \in 1..number_of_edges(g) : g.edges[e][2] = unit}

OutIdx(g, unit) == {e \in 1..number_of_edges(g) : g.edges[e][1] = unit}

(* A load_guesses that fixes the variable at the guess whether it is fixed *)
(* already or not.                                                         *)
load_guesses_overwrite(g, st, e) ==
    IF st.guesses[e] = None THEN st
    ELSE [fix(st, DestVar(e)) EXCEPT !.dest_val[e] = st.guesses[e],
                                     !.ledger[g.edges[e][2]] = @ \cup {DestVar(e)}]

(* load_guesses(guesses, port, fixed_ins) for the inlet port of edge e:    *)
(* without a guess for the member, or with the variable fixed, nothing     *)
(* happens; else the variable is fixed at the guess and recorded.          *)
load_guesses(g, st, e) ==
    IF st.guesses[e] = None \/ DestVar(e) \in st.fixed THEN st
    ELSE [fix(st, DestVar(e)) EXCEPT !.dest_val[e] = st.guesses[e],
                                     !.ledger[g.edges[e][2]] = @ \cup {DestVar(e)}]

(* A check_value_fix that prefers the default to the current value.        *)
check_value_fix_default_first(g, st, e) ==
    LET val == IF st.default_guess # None THEN st.default_guess ELSE st.dest_val[e]
    IN IF val = None THEN [st EXCEPT !.pc = "raised"]
       ELSE [fix(st, DestVar(e)) EXCEPT !.dest_val[e] = val,
                                        !.ledger[g.edges[e][2]] = @ \cup {DestVar(e)}]

(* check_value_fix(port, var, default, fixed_ins, use_guesses) for the     *)
(* free inlet variable of edge e: it is fixed at its current value, or at  *)
(* the default when it has none, and recorded; with neither, RuntimeError. *)
check_value_fix(g, st, e) ==
    LET val == IF st.dest_val[e] # None THEN st.dest_val[e] ELSE st.default_guess
    IN IF val = None THEN [st EXCEPT !.pc = "raised"]
       ELSE [fix(st, DestVar(e)) EXCEPT !.dest_val[e] = val,
                                        !.ledger[g.edges[e][2]] = @ \cup {DestVar(e)}]

(* A load_values that leaves the inlet variables as they are.              *)
load_values_skip(g, st, e) == st

(* load_values(port, default, fixed_ins, use_guesses) for the inlet port   *)
(* of edge e: "for name, obj in port.iter_vars(fixed=False)".              *)
load_values(g, st, e) == IF DestVar(e) \in st.fixed THEN st ELSE check_value_fix(g, st, e)

RECURSIVE load_ports(_, _, _)
(* "for port in unit.component_data_objects(Port)" of run_order, over the  *)
(* ports with sources: the guesses if use_guesses and the port has some,   *)
(* then the values.                                                        *)
load_ports(g, st, ports) ==
    IF ports = <<>> \/ st.pc = "raised" THEN st
    ELSE LET e  == Head(ports)
             s1 == IF st.use_guesses /\ st.guesses[e] # None THEN load_guesses(g, st, e) ELSE st
         IN load_ports(g, load_values(g, s1, e), Tail(ports))

(* "for var in fixed_ins: var.free()" and "fixed_ins.clear()".             *)
free_fixed_ins(st, unit) ==
    [st EXCEPT !.fixed = @ \ st.ledger[unit], !.ledger[unit] = {},
               !.log = Append(@, [ev |-> "free", unit |-> unit, vars |-> st.ledger[unit]])]

(* One iteration of "for unit in lev" of run_order: the inlet ports are    *)
(* loaded, function(unit) is called and either raises (outs.raises) or     *)
(* gives the values outs.val to the free outlet variables, the ledger set  *)
(* of the unit is freed and cleared, and the values are passed downstream. *)
run_order_unit(g, st, unit, outs, ignore) ==
    LET st1 == load_ports(g, st, SortedSeq(InIdx(g, unit)))
        st2 == [st1 EXCEPT !.log = Append(@, [ev |-> "call", unit |-> unit,
                                              free_in |-> {DestVar(e) : e \in InIdx(g, unit)} \ st1.fixed,
                                              in_val |-> [e \in InIdx(g, unit) |-> st1.dest_val[e]],
                                              ledger |-> st1.ledger[unit]])]
        st3 == [st2 EXCEPT !.src_val = List([e \in 1..number_of_edges(g) |->
                              IF e \in OutIdx(g, unit) /\ SrcVar(e) \notin st2.fixed
                              THEN outs.val[e] ELSE st2.src_val[e]])]
        st4 == [free_fixed_ins(st3, unit) EXCEPT !.cache = @ \cup (IF OutIdx(g, unit) # {} THEN {"arc_to_edge"} ELSE {})]
    IN IF st1.pc = "raised" THEN st1
       ELSE IF outs.raises THEN [st2 EXCEPT !.pc = "raised"]
       ELSE pass_edges(g, st4, SortedSeq(OutIdx(g, unit)), ignore)

(* A call run_order(G, order, function, ignore, use_guesses) begins; when  *)
(* it returns run goes on at then.                                         *)
run_order(st, order, ignore, use_guesses, then) ==
    LET s1 == [st EXCEPT !.cache = @ \cup {"fixed_inputs", "edge_to_idx"}, !.passes = @ + 1]
    IN IF order = <<>> THEN [s1 EXCEPT !.pc = then]
       ELSE [s1 EXCEPT !.pc = "run_order", !.order = order, !.ignore = ignore,
                       !.use_guesses = use_guesses, !.then = then]

(* tear_diff_direct, generate_gofx, generate_first_x: the values of the    *)
(* source and destination members of the tear edges.                       *)
tear_svals(st, tears) == List([k \in 1..Len(tears) |-> st.src_val[tears[k]]])

tear_dvals(st, tears) == List([k \in 1..Len(tears) |-> st.dest_val[tears[k]]])

(* value(mem) of a member without a value raises.                          *)
has_values(vals) == \A k \in 1..Len(vals) : vals[k] # None

(* A compute_err that returns the difference for "rel" too.                *)
compute_err_diff(svals, dvals, tol_type) ==
    IF tol_type \notin {"abs", "rel"} THEN [status |-> "error", err |-> <<>>]
    ELSE [status |-> "ok", err |-> List([k \in 1..Len(svals) |-> <<svals[k] - dvals[k], 1>>])]

(* compute_err(svals, dvals, tol_type): ValueError for a tol_type that is  *)
(* neither "abs" nor "rel"; else the errors, each a fraction <<num, den>>: *)
(* the difference, or for "rel" the difference over the source value,      *)
(* where 0/0 is 0 and x/0 is x.                                            *)
compute_err(svals, dvals, tol_type) ==
    IF tol_type \notin {"abs", "rel"} THEN [status |-> "error", err |-> <<>>]
    ELSE [status |-> "ok",
          err |-> List([k \in 1..Len(svals) |->
                     IF tol_type = "abs" \/ svals[k] = 0
                     THEN <<svals[k] - dvals[k], 1>>
                     ELSE <<svals[k] - dvals[k], svals[k]>>])]

(* "numpy.max(numpy.abs(err)) < tol": tol, 1.0E-5, is below every non-zero *)
(* fraction of two values.                                                 *)
within_tol(err) == \A k \in 1..Len(err) : err[k][1] = 0

(* "only pass tears that are part of this SCC"                             *)
scc_tears(tset, sccEdges) == SelectSeq(tset, LAMBDA ei : ei \in Range(sccEdges))

(* options["accel_min"] and options["accel_max"]                           *)
accel_min == 0 - 5

accel_max == 0

(* "slope = numpy.divide((gofx - gofx_prev), denom)" for one element, from *)
(* num = gofx - gofx_prev and denom = x - x_prev, with NaN (0 / 0) and Inf *)
(* (num / 0) replaced by 0: a fraction <<n, d>> with d > 0.                *)
wegstein_slope(num, denom) ==
    IF denom = 0 THEN <<0, 1>>
    ELSE IF denom > 0 THEN <<num, denom>>
    ELSE <<0 - num, 0 - denom>>

(* An accel that is left unclipped.                                        *)
wegstein_accel_unclipped(num, denom) ==
    LET s == wegstein_slope(num, denom)
    IN IF s[1] - s[2] > 0 THEN <<s[1], s[1] - s[2]>> ELSE <<0 - s[1], s[2] - s[1]>>

(* One element of accel: "accel = slope / (slope - 1)" clipped to          *)
(* accel_min..accel_max, a fraction <<p, q>> with q > 0; slope = 1 gives   *)
(* Inf, which is clipped to accel_max.                                     *)
wegstein_accel(num, denom) ==
    LET s == wegstein_slope(num, denom)
    IN IF s[1] = s[2] THEN <<accel_max, 1>>
       ELSE LET p == IF s[1] - s[2] > 0 THEN s[1] ELSE 0 - s[1]
                q == Abs(s[1] - s[2])
            IN IF p < accel_min * q THEN <<accel_min, 1>>
               ELSE IF p > accel_max * q THEN <<accel_max, 1>>
               ELSE <<p, q>>

(* One element of "x = accel * x_prev + (1 - accel) * gofx_prev" after     *)
(* "x_prev = x; gofx_prev = gofx", a fraction.                             *)
wegstein_update(gofx, gofx_prev, x, x_prev) ==
    LET accel == wegstein_accel(gofx - gofx_prev, x - x_prev)
    IN <<accel[1] * x + (accel[2] - accel[1]) * gofx, accel[2]>>

(* The new x of the tears.  The values of a run are whole numbers, and the *)
(* updates of a run have whole factors.                                    *)
wegstein_x(gofx, gofx_prev, x, x_prev) ==
    List([k \in 1..Len(x) |->
        LET f == wegstein_update(gofx[k], gofx_prev[k], x[k], x_prev[k])
        IN Div(f[1], f[2])])

(* pass_single_value(port, name, member, val, fixed) for the destination   *)
(* variable of edge e: a fixed member must hold val (RuntimeError          *)
(* otherwise); a free one is fixed at val and recorded.                    *)
pass_single_value(g, st, e, val) ==
    IF DestVar(e) \in st.fixed
    THEN IF Abs(st.dest_val[e] - val) > AlmostEqualTol THEN [st EXCEPT !.pc = "raised"] ELSE st
    ELSE [fix(st, DestVar(e)) EXCEPT !.dest_val[e] = val,
                                     !.ledger[g.edges[e][2]] = @ \cup {DestVar(e)}]

RECURSIVE pass_tear_wegstein(_, _, _, _, _)
(* pass_tear_wegstein(G, tears, x), from the k-th tear on.                 *)
pass_tear_wegstein(g, st, tears, x, k) ==
    IF k > Len(tears) \/ st.pc = "raised" THEN st
    ELSE pass_tear_wegstein(g, pass_single_value(g, st, tears[k], x[k]), tears, x, k + 1)

(* The keys tear_set(G) leaves in the cache: the maps its branch builds,   *)
(* and "tear_set" when it returns.                                         *)
tear_set_cache(tear_set_option, select_tear_method, returns) ==
    (IF tear_set_option.given THEN {"arc_to_edge", "edge_to_idx", "idx_to_edge", "idx_to_node"}
     ELSE IF select_tear_method = "mip" THEN {"idx_to_node", "edge_to_idx"}
     ELSE IF select_tear_method = "heuristic" THEN {"idx_to_edge", "idx_to_node", "edge_to_idx"}
     ELSE {})
    \cup (IF returns THEN {"tear_set"} ELSE {})

(* ---------------------------------------------------------------------- *)
(* The actions of a run                                                    *)
(* ---------------------------------------------------------------------- *)
(* run(model, function) up to the first pass: the cache is cleared, the    *)
(* tear set is taken from the options or selected, and the first pass      *)
(* begins if it is asked for; an error of tear_set or calculation_order    *)
(* ends the run.  Opts are the settings of the other options and the state *)
(* of the variables the user hands in: user_fixed the fixed variables,     *)
(* dest_init the values of the destination variables; every source         *)
(* variable has the value 0.                                               *)
run_begin(tear_set_option, select_tear_method, Opts) ==
    /\ ret = NoCall
    /\ run = NoRun
    /\ G.n > 0
    /\ \E t \in tear_set(G, tear_set_option, select_tear_method) :
       \E co \in {calculation_order(G, t.tset, [given |-> FALSE], idx_to_node(G))} :
       \E o \in Opts :
          LET st0 == [NoRun EXCEPT !.option = tear_set_option,
                                   !.select_tear_method = select_tear_method,
                                   !.solve_tears = o.solve_tears,
                                   !.iterLim = o.iterLim,
                                   !.tear_method = o.tear_method,
                                   !.tol_type = o.tol_type,
                                   !.guesses = o.guesses,
                                   !.default_guess = o.default_guess,
                                   !.user_fixed = o.user_fixed,
                                   !.fixed = o.user_fixed,
                                   !.src_val = List([e \in 1..number_of_edges(G) |-> 0]),
                                   !.dest_val = o.dest_init,
                                   !.ledger = List([u \in 1..G.n |-> {}]),
                                   !.cache = tear_set_cache(tear_set_option, select_tear_method, t.status = "ok")]
              st  == [st0 EXCEPT !.tset = t.tset, !.cache = @ \cup {"idx_to_edge", "idx_to_node"}]
          IN run' = IF t.status # "ok" THEN [st0 EXCEPT !.pc = "raised"]
                    ELSE IF ~o.run_first_pass THEN [st0 EXCEPT !.tset = t.tset, !.pc = "after_first_pass"]
                    ELSE IF co.status # "ok" THEN [st EXCEPT !.pc = "raised"]
                    ELSE run_order(st, Flatten(co.order), Range(t.tset), TRUE, "after_first_pass")
    /\ UNCHANGED <<G, ret>>

(* What function(unit) may do: raise, or give a value to each outlet.      *)
Outs(g, unit) ==
    {[raises |-> FALSE, val |-> v] : v \in [OutIdx(g, unit) -> {0, 1}]}
    \cup {[raises |-> TRUE, val |-> [e \in OutIdx(g, unit) |-> 0]]}

(* The next unit of the running run_order, with what the callback does.    *)
run_order_step ==
    /\ run.pc = "run_order"
    /\ \E outs \in Outs(G, Head(run.order)) :
       \E st \in {run_order_unit(G, run, Head(run.order), outs, run.ignore)} :
          run' = IF st.pc = "raised" THEN st
                 ELSE IF Tail(run.order) = <<>> THEN [st EXCEPT !.pc = run.then, !.order = <<>>]
                 ELSE [st EXCEPT !.order = Tail(run.order)]
    /\ UNCHANGED <<G, ret>>

(* "if not self.options["solve_tears"] or not len(tset): return", else     *)
(* "sccNodes, sccEdges, sccOrder, outEdges = self.scc_collect(G)" and the  *)
(* loop over the SCCs.                                                     *)
run_after_first_pass ==
    /\ run.pc = "after_first_pass"
    /\ IF ~run.solve_tears \/ Len(run.tset) = 0
       THEN run' = [run EXCEPT !.pc = "returned"]
       ELSE \E c \in {scc_collect(G, <<>>)} :
               run' = [run EXCEPT !.pc = "tear", !.sccs = Flatten(c.sccOrder.order),
                                  !.sccNodes = c.sccNodes, !.sccEdges = c.sccEdges,
                                  !.outEdges = c.outEdges,
                                  !.cache = @ \cup {"idx_to_node", "idx_to_edge"}, !.log = <<>>]
    /\ UNCHANGED <<G, ret>>

(* solve_tear_wegstein up to its loop, for an SCC with tears: the first    *)
(* check, and if it fails one direct step and the first run_order.         *)
solve_tear_wegstein_begin(g, st, order, tears) ==
    LET gofx == tear_svals(st, tears)
        x    == tear_dvals(st, tears)
        c    == compute_err(gofx, x, st.tol_type)
        s1   == pass_tear_wegstein(g, [st EXCEPT !.x_prev = x, !.gofx_prev = gofx, !.x = gofx,
                                                 !.itercount = 1,
                                                 !.cache = @ \cup {"fixed_inputs"}],
                                   tears, gofx, 1)
    IN IF ~has_values(gofx) \/ ~has_values(x) \/ c.status = "error" THEN [st EXCEPT !.pc = "raised"]
       ELSE IF within_tol(c.err) THEN [st EXCEPT !.pc = "tear", !.ended = "converged"]
       ELSE IF s1.pc = "raised" THEN s1
       ELSE run_order(s1, order, st.ignore, FALSE, "wegstein")

(* The head of "for lev in sccOrder: for sccIndex in lev": after the last  *)
(* SCC the cache is cleared and run returns; else the order of the SCC is  *)
(* computed and the tear method named by options["tear_method"] begins for *)
(* it, which without tears is one call of run_order.                       *)
run_next_scc ==
    /\ run.pc = "tear"
    /\ IF run.sccs = <<>>
       THEN run' = [run EXCEPT !.pc = "returned", !.cache = {}]
       ELSE \E sccIndex \in {Head(run.sccs)} :
            \E co \in {calculation_order(G, run.tset, [given |-> FALSE], run.sccNodes[sccIndex])} :
            \E tears \in {scc_tears(run.tset, run.sccEdges[sccIndex])} :
            \E st \in {[run EXCEPT !.sccs = Tail(run.sccs), !.sccIndex = sccIndex, !.itercount = 0,
                                   !.passes = 0, !.ended = "", !.log = <<>>,
                                   !.tears = tears, !.scc_order = Flatten(co.order),
                                   !.ignore = Range(tears) \cup Range(run.outEdges[sccIndex]),
                                   !.cache = @ \cup {"idx_to_edge"}]} :
               run' = IF co.status # "ok" \/ run.tear_method \notin {"Direct", "Wegstein"}
                      THEN [st EXCEPT !.pc = "raised"]
                      ELSE IF Len(tears) = 0
                      THEN run_order([st EXCEPT !.ended = "no_tears"], st.scc_order, {}, FALSE, "tear")
                      ELSE IF run.tear_method = "Direct" THEN [st EXCEPT !.pc = "iterate"]
                      ELSE solve_tear_wegstein_begin(G, st, st.scc_order, tears)
    /\ UNCHANGED <<G, ret>>

(* The head of "while True" of solve_tear_direct: converged (pass_edges on *)
(* the out edges, return), at the iteration limit (warning, return), or    *)
(* one more iteration (pass_tear_direct, run_order).                       *)
solve_tear_direct_step ==
    /\ run.pc = "iterate"
    /\ \E err \in {compute_err(tear_svals(run, run.tears), tear_dvals(run, run.tears), run.tol_type)} :
       \E st \in {[run EXCEPT !.cache = @ \cup {"fixed_inputs", "idx_to_edge"}]} :
          IF ~has_values(tear_dvals(run, run.tears)) \/ err.status = "error"
          THEN run' = [run EXCEPT !.pc = "raised"]
          ELSE IF within_tol(err.err)
          THEN \E out \in {pass_edges(G, st, run.outEdges[run.sccIndex], {})} :
                  run' = IF out.pc = "raised" THEN out ELSE [out EXCEPT !.pc = "tear", !.ended = "converged"]
          ELSE IF run.itercount >= run.iterLim
          THEN run' = [run EXCEPT !.pc = "tear", !.ended = "cap"]
          ELSE \E torn \in {pass_edges(G, st, run.tears, {})} :
                  run' = IF torn.pc = "raised" THEN torn
                         ELSE run_order([torn EXCEPT !.itercount = @ + 1], run.scc_order, run.ignore, FALSE, "iterate")
    /\ UNCHANGED <<G, ret>>

(* The loop of solve_tear_wegstein after its run_order: converged          *)
(* (pass_edges on the out edges, return), past the iteration limit         *)
(* (warning, return), or the next x is passed to the tears and run_order   *)
(* is called again.                                                        *)
solve_tear_wegstein_step ==
    /\ run.pc = "wegstein"
    /\ \E gofx \in {tear_svals(run, run.tears)} :
       \E err \in {compute_err(gofx, run.x, run.tol_type)} :
          IF err.status = "error"
          THEN run' = [run EXCEPT !.pc = "raised"]
          ELSE IF within_tol(err.err)
          THEN \E out \in {pass_edges(G, [run EXCEPT !.cache = @ \cup {"fixed_inputs", "idx_to_edge"}],
                                      run.outEdges[run.sccIndex], {})} :
                  run' = IF out.pc = "raised" THEN out ELSE [out EXCEPT !.pc = "tear", !.ended = "converged"]
          ELSE IF run.itercount > run.iterLim
          THEN run' = [run EXCEPT !.pc = "tear", !.ended = "cap"]
          ELSE \E x \in {wegstein_x(gofx, run.gofx_prev, run.x, run.x_prev)} :
               \E next \in {pass_tear_wegstein(G, [run EXCEPT !.x_prev = run.x, !.gofx_prev = gofx, !.x = x],
                                               run.tears, x, 1)} :
                  run' = IF next.pc = "raised" THEN next
                         ELSE run_order([next EXCEPT !.itercount = @ + 1], run.scc_order, run.ignore, FALSE, "wegstein")
    /\ UNCHANGED <<G, ret>>

(* ---------------------------------------------------------------------- *)
(* Specification: runs of the driver on built graphs                       *)
(* ---------------------------------------------------------------------- *)
(* Every variable has the value v; no port has a guess.                    *)
AllValues(g, v) == List([e \in 1..number_of_edges(g) |-> v])

(* The options of the runs of SpecRun: the defaults for tear_method and    *)
(* tol_type, no guesses, any run_first_pass, solve_tears and iterLim, and  *)
(* variables of value 0 of which the user has fixed some.                  *)
RunOptions(g) ==
    {[run_first_pass |-> f, solve_tears |-> s, iterLim |-> i, tear_method |-> "Direct",
      tol_type |-> "abs", guesses |-> AllValues(g, None), default_guess |-> None,
      user_fixed |-> uf, dest_init |-> AllValues(g, 0)] :
        f \in BOOLEAN, s \in BOOLEAN, i \in 0..RunMaxIter,
        uf \in {S \in SUBSET PortVars(g) : Cardinality(S) <= RunMaxUserFixed}}

NextRun ==
    \/ \E u, v \in 1..RunMaxNodes : AddArc(u, v, RunMaxNodes, RunMaxEdges)
    \/ \E o \in TearSetOptions(G, RunMaxEdges) : run_begin(o, "heuristic", RunOptions(G))
    \/ run_order_step
    \/ run_after_first_pass
    \/ run_next_scc
    \/ solve_tear_direct_step

SpecRun == Init /\ [][NextRun]_vars

(* ---------------------------------------------------------------------- *)
(* C10: when run returns normally, on a graph whose tear set leaves no     *)
(* directed cycle, every variable the driver fixed during the run has been *)
(* freed, and every set of the fixed-input ledger is empty when the cache  *)
(* that holds it is cleared.                                               *)
(* ---------------------------------------------------------------------- *)
RunReleasesEverything ==
    (run.pc = "returned" /\ IsDAG(G, Range(run.tset))) =>
        /\ run.fixed \cap run.driver_fixed = {}
        /\ \A u \in 1..G.n : run.ledger[u] = {}

(* The first pass alone releases everything when the tear set leaves no    *)
(* cycle.                                                                  *)
FirstPassReleasesEverything ==
    (run.pc = "after_first_pass" /\ IsDAG(G, Range(run.tset))) =>
        /\ run.fixed \cap run.driver_fixed = {}
        /\ \A u \in 1..G.n : run.ledger[u] = {}

(* ---------------------------------------------------------------------- *)
(* C11: when the unit callback, the loading of inlet values or the         *)
(* propagation across an arc raises during run, every variable the driver  *)
(* had fixed up to that point has been released when the error leaves run. *)
(* ---------------------------------------------------------------------- *)
RunErrorReleasesEverything ==
    run.pc = "raised" => run.fixed \cap run.driver_fixed = {}

(* ---------------------------------------------------------------------- *)
(* C12: the cache is empty whenever run returns or raises: after the       *)
(* normal end of the tear phase, after the early return, and on every      *)
(* error path.                                                             *)
(* ---------------------------------------------------------------------- *)
CacheEmptyAtExit ==
    run.pc \in {"returned", "raised"} => run.cache = {}

(* After the normal end of the tear phase the cache is empty.              *)
CacheEmptyAfterTearPhase ==
    (run.pc = "returned" /\ run.solve_tears /\ Len(run.tset) > 0) => run.cache = {}

(* Some directed cycle of g through two or more units avoids the edges     *)
(* of excl: an SCC of g without excl has more than one node.               *)
LeavesBigSCC(g, excl) ==
    \E u, v \in 1..g.n : u # v /\ <<u, v>> \in Reach(g, excl) /\ <<v, u>> \in Reach(g, excl)

(* ---------------------------------------------------------------------- *)
(* C13: when the user supplies a tear set that leaves a strongly connected *)
(* component of more than one node, run raises before any unit callback is *)
(* invoked and before the driver fixes any variable.                       *)
(* ---------------------------------------------------------------------- *)
BadUserTearSetRejected ==
    (run.pc # "idle" /\ run.option.given /\ LeavesBigSCC(G, Range(run.option.arcs))) =>
        /\ run.pc = "raised"
        /\ run.log = <<>>
        /\ run.passes = 0
        /\ run.driver_fixed = {}
        /\ run.fixed = run.user_fixed

BadUserTearSetRejectedWitness ==
    /\ run.pc = "raised"
    /\ run.option.given
    /\ run.option.arcs # <<>>
    /\ LeavesBigSCC(G, Range(run.option.arcs))
    /\ run.log = <<>>

(* On the larger graphs of SpecScc: scc_collect returns a component of     *)
(* more than one node whenever the graph has a cycle through two or more   *)
(* units, so check_tear_set rejects every tear set that leaves one.        *)
SccCollectFindsBigSCC ==
    (ret.op = "scc_collect" /\ LeavesBigSCC(G, Range(ret.excludeEdges))) =>
        \E k \in 1..Len(ret.val.sccNodes) : Len(ret.val.sccNodes[k]) > 1

(* The positions in a log of the calls of function(u), and of the calls of *)
(* pass_values on edge e.                                                  *)
CallPositions(log, u) == {k \in 1..Len(log) : log[k].ev = "call" /\ log[k].unit = u}

PassPositions(log, e) == {k \in 1..Len(log) : log[k].ev = "pass" /\ log[k].edge = e}

(* The first pass has run to its end.                                      *)
FirstPassDone == run.pc = "after_first_pass" /\ run.passes = 1

(* ---------------------------------------------------------------------- *)
(* C14: with run_first_pass and a tear set that leaves no directed cycle,  *)
(* the first pass calls the callback exactly once on every node, on a node *)
(* only after it was called on every predecessor along a non-tear edge and *)
(* the values of that edge were passed; no value is passed along a tear    *)
(* edge.                                                                   *)
(* ---------------------------------------------------------------------- *)
FirstPassOnceInOrder ==
    (FirstPassDone /\ IsDAG(G, Range(run.tset))) =>
        /\ \A u \in 1..G.n : Cardinality(CallPositions(run.log, u)) = 1
        /\ \A e \in 1..number_of_edges(G) :
              IF e \in Range(run.tset) THEN PassPositions(run.log, e) = {}
              ELSE \E p \in PassPositions(run.log, e) :
                      /\ \A a \in CallPositions(run.log, G.edges[e][1]) : a < p
                      /\ \A b \in CallPositions(run.log, G.edges[e][2]) : p < b

FirstPassOnceInOrderWitness ==
    /\ FirstPassDone
    /\ IsDAG(G, Range(run.tset))
    /\ G.n = 2
    /\ run.tset # <<>>
    /\ \E e \in 1..number_of_edges(G) : e \notin Range(run.tset) /\ G.edges[e][1] # G.edges[e][2]
    /\ \A u \in 1..G.n : Cardinality(CallPositions(run.log, u)) = 1

(* ---------------------------------------------------------------------- *)
(* Specification: runs that solve the tears with either tear method        *)
(* ---------------------------------------------------------------------- *)
(* The options of the runs of SpecMethods: solve_tears, either tear method *)
(* and tolerance type, any iterLim up to MethodMaxIter, and destination    *)
(* variables of value 0 or 1 none of which the user has fixed.             *)
MethodOptions(g) ==
    {[run_first_pass |-> f, solve_tears |-> TRUE, iterLim |-> i, tear_method |-> m,
      tol_type |-> t, guesses |-> AllValues(g, None), default_guess |-> None,
      user_fixed |-> {}, dest_init |-> List(d)] :
        f \in BOOLEAN, i \in 0..MethodMaxIter, m \in {"Direct", "Wegstein"}, t \in {"abs", "rel"},
        d \in [1..number_of_edges(g) -> {0, 1}]}

NextMethods ==
    \/ \E u, v \in 1..MethodMaxNodes : AddArc(u, v, MethodMaxNodes, MethodMaxEdges)
    \/ \E o \in TearSetOptions(G, MethodMaxEdges) : run_begin(o, "heuristic", MethodOptions(G))
    \/ run_order_step
    \/ run_after_first_pass
    \/ run_next_scc
    \/ solve_tear_direct_step
    \/ solve_tear_wegstein_step

SpecMethods == Init /\ [][NextMethods]_vars

(* A tear method is iterating on an SCC with tears, or has ended on one.   *)
InTearMethod ==
    \/ run.pc \in {"iterate", "wegstein"}
    \/ run.pc = "run_order" /\ run.then \in {"iterate", "wegstein"}
    \/ run.pc = "tear" /\ run.ended \in {"converged", "cap"}

(* ---------------------------------------------------------------------- *)
(* C15: for either tear method, one convergence call on an SCC performs at *)
(* most iterLim evaluation passes (run_order calls) over the SCC; at the   *)
(* cap it logs the warning and returns without raising.                    *)
(* ---------------------------------------------------------------------- *)
TearMethodWithinIterLim ==
    InTearMethod => run.passes <= run.iterLim

(* Direct keeps to the cap.                                                *)
DirectWithinIterLim ==
    (InTearMethod /\ run.tear_method = "Direct") => run.passes <= run.iterLim

(* Wegstein makes at most one pass more than the cap.                      *)
WegsteinWithinIterLimPlusOne ==
    (InTearMethod /\ run.tear_method = "Wegstein") => run.passes <= run.iterLim + 1

(* The edges that leave the SCC being solved.                              *)
CurrentOutEdges ==
    LET nodes == Range(run.sccNodes[run.sccIndex])
    IN {e \in 1..number_of_edges(G) : G.edges[e][1] \in nodes /\ G.edges[e][2] \notin nodes}

(* ---------------------------------------------------------------------- *)
(* C16: when a tear method ends because the tear error is within the       *)
(* tolerance, at the initial check or after some iterations, it has passed *)
(* the values along every out-edge of the SCC; when it ends at the         *)
(* iteration cap it has passed none.  For Direct and for Wegstein.         *)
(* ---------------------------------------------------------------------- *)
ConvergedPassesOutEdges ==
    /\ (run.pc = "tear" /\ run.ended = "converged") =>
          \A e \in CurrentOutEdges : PassPositions(run.log, e) # {}
    /\ (run.pc = "tear" /\ run.ended = "cap") =>
          \A e \in CurrentOutEdges : PassPositions(run.log, e) = {}

(* Direct does so.                                                         *)
DirectConvergedPassesOutEdges ==
    run.tear_method = "Direct" => ConvergedPassesOutEdges

(* Wegstein does so when it converges after at least one pass.             *)
WegsteinConvergedLaterPassesOutEdges ==
    (run.tear_method = "Wegstein" /\ run.passes > 0) => ConvergedPassesOutEdges

(* What the step from run to run' appended to the log.                     *)
Logged == SubSeq(run'.log, Len(run.log) + 1, Len(run'.log))

(* ---------------------------------------------------------------------- *)
(* C17: a step of run_order on a unit that does not raise goes in this     *)
(* order: every free variable of the inlet ports is fixed (and recorded in *)
(* the unit's ledger set), so none is free when the callback is invoked;   *)
(* then exactly the variables of the ledger set are freed; then pass_values*)
(* is called on each outgoing edge that is not in ignore, in order, and on *)
(* no ignored edge; the free source variables are fixed only while the     *)
(* values are passed and are free again afterwards.                        *)
(* ---------------------------------------------------------------------- *)
RunOrderStepsInOrder ==
    [][(run.pc = "run_order" /\ run'.pc # "raised") =>
          LET unit   == Head(run.order)
              inlets == {DestVar(e) : e \in InIdx(G, unit)}
              passed == SortedSeq(OutIdx(G, unit) \ run.ignore)
          IN /\ Len(Logged) = 2 + Len(passed)
             /\ Logged[1].ev = "call" /\ Logged[1].unit = unit
             /\ Logged[1].free_in = {}
             /\ inlets \ run.fixed \subseteq Logged[1].ledger
             /\ Logged[2].ev = "free" /\ Logged[2].unit = unit
             /\ Logged[2].vars = Logged[1].ledger
             /\ \A k \in 1..Len(passed) : Logged[2 + k] = [ev |-> "pass", edge |-> passed[k]]
             /\ \A e \in OutIdx(G, unit) : SrcVar(e) \in run'.fixed <=> SrcVar(e) \in run.fixed
      ]_vars

(* A step of run_order has fixed and freed an inlet variable, passed the   *)
(* values along one outgoing edge and ignored another.                     *)
RunOrderStepsInOrderWitness ==
    /\ run.pc # "raised"
    /\ \E k \in 1..Len(run.log) :
          /\ run.log[k].ev = "free"
          /\ run.log[k].vars # {}
          /\ k < Len(run.log)
          /\ run.log[k + 1].ev = "pass"
          /\ G.edges[run.log[k + 1].edge][1] = run.log[k].unit
          /\ OutIdx(G, run.log[k].unit) \cap run.ignore # {}

(* ---------------------------------------------------------------------- *)
(* Specification: runs with guesses, a default guess and variables without *)
(* a value                                                                 *)
(* ---------------------------------------------------------------------- *)
(* The values of SpecGuess tell their origin: the callback gives 0 or 1, a *)
(* destination variable has no value or the value 1 when run begins, a     *)
(* guess is GuessValue and the default guess is DefaultValue.              *)
GuessValue == 2

DefaultValue == 3

(* The options of the runs of SpecGuess: a guess or none for each inlet    *)
(* port, a default guess or none, destination variables with or without a  *)
(* value, of which the user has fixed at most one that has a value.        *)
GuessOptions(g) ==
    {o \in {[run_first_pass |-> f, solve_tears |-> s, iterLim |-> i, tear_method |-> "Direct",
             tol_type |-> "abs", guesses |-> List(gs), default_guess |-> d,
             user_fixed |-> uf, dest_init |-> List(dv)] :
               f \in BOOLEAN, s \in BOOLEAN, i \in 0..GuessMaxIter,
               gs \in [1..number_of_edges(g) -> {None, GuessValue}], d \in {None, DefaultValue},
               dv \in [1..number_of_edges(g) -> {None, 1}],
               uf \in {S \in SUBSET {DestVar(e) : e \in 1..number_of_edges(g)} : Cardinality(S) <= 1}} :
        \A var \in o.user_fixed : o.dest_init[var[2]] # None}

NextGuess ==
    \/ \E u, v \in 1..GuessMaxNodes : AddArc(u, v, GuessMaxNodes, GuessMaxEdges)
    \/ \E o \in TearSetOptions(G, GuessMaxEdges) : run_begin(o, "heuristic", GuessOptions(G))
    \/ run_order_step
    \/ run_after_first_pass
    \/ run_next_scc
    \/ solve_tear_direct_step

SpecGuess == Init /\ [][NextGuess]_vars

(* The value a free inlet variable is to be fixed at before the callback:  *)
(* the guess in the first pass, else the current value, else the default   *)
(* guess, else None.                                                       *)
InletValue(e) ==
    IF run.then = "after_first_pass" /\ run.guesses[e] # None THEN run.guesses[e]
    ELSE IF run.dest_val[e] # None THEN run.dest_val[e]
    ELSE run.default_guess

(* ---------------------------------------------------------------------- *)
(* C18: in a step of run_order the free inlet variables of the unit are    *)
(* fixed at the guess if there is one and this is the first pass, else at  *)
(* the current value, else at default_guess, and when one of them has none *)
(* of the three run raises before the callback; an inlet variable that is  *)
(* already fixed keeps its value, guess or not.                            *)
(* ---------------------------------------------------------------------- *)
InletValuePriority ==
    [][run.pc = "run_order" =>
          LET inlets == InIdx(G, Head(run.order))
              free   == {e \in inlets : DestVar(e) \notin run.fixed}
          IN IF \E e \in free : InletValue(e) = None
             THEN run'.pc = "raised" /\ Logged = <<>>
             ELSE /\ Logged # <<>>
                  /\ Logged[1].ev = "call"
                  /\ \A e \in inlets :
                        Logged[1].in_val[e] = IF e \in free THEN InletValue(e) ELSE run.dest_val[e]
      ]_vars

(* The callback has been called on a unit with an inlet variable fixed at  *)
(* its guess, on one with an inlet variable fixed at the default guess and *)
(* on one with an inlet variable fixed at its current value though it has  *)
(* a guess.                                                                *)
InletValuePriorityWitness ==
    /\ \E k \in 1..Len(run.log) :
          /\ run.log[k].ev = "call"
          /\ \E e \in DOMAIN run.log[k].in_val :
                /\ DestVar(e) \in run.log[k].ledger
                /\ run.log[k].in_val[e] = DefaultValue
    /\ \E k \in 1..Len(run.log) :
          /\ run.log[k].ev = "call"
          /\ \E e \in DOMAIN run.log[k].in_val :
                /\ DestVar(e) \in run.log[k].ledger
                /\ run.guesses[e] # None
                /\ run.log[k].in_val[e] \in {0, 1}

(* A run has raised because an inlet variable had no guess, no value and   *)
(* no default.                                                             *)
InletValueMissingWitness ==
    /\ run.pc = "raised"
    /\ run.order # <<>>
    /\ \E e \in InIdx(G, Head(run.order)) :
          DestVar(e) \notin run.fixed /\ InletValue(e) = None

(* ---------------------------------------------------------------------- *)
(* Specification: pass_values on the constraints of an expanded block      *)
(* ---------------------------------------------------------------------- *)
(* The constraints: equalities and inequalities, linear or not, with up to *)
(* PassMaxFree free variables, and right-hand sides, constants and         *)
(* coefficients whose quotients are integers.                              *)
Constraints ==
    [equality : BOOLEAN, nfree : 0..PassMaxFree, linear : BOOLEAN,
     lower : {0, 2}, constant : {0, 2, 4}, coef : {0 - 1, 1, 2}]

(* One iteration of the loop of pass_values, on constraint con with        *)
(* options["almost_equal_tol"] = eq_tol.                                   *)
Call_pass_values(con, eq_tol) ==
    /\ ret = NoCall
    /\ run = NoRun
    /\ ret' = [op |-> "pass_values", con |-> con, eq_tol |-> eq_tol, val |-> pass_values_constraint(con, eq_tol)]
    /\ UNCHANGED <<G, run>>

NextPass == \E con \in Constraints, eq_tol \in {0, 2} : Call_pass_values(con, eq_tol)

SpecPass == Init /\ [][NextPass]_vars

(* The two sides of the constraint differ by at most the tolerance.        *)
SidesAgree(con, eq_tol) == Abs(con.lower - con.constant) <= eq_tol

(* The constraint is an equality, linear, with exactly one free variable,  *)
(* and the result fixes it at (rhs - const) / coeff.                       *)
SolvedForFreeVariable(con, r) ==
    r.action = "fix" /\ r.val * con.coef = con.lower - con.constant

(* ---------------------------------------------------------------------- *)
(* C19, as stated: pass_values treats a constraint in exactly one of three *)
(* ways: with every variable fixed it is accepted when the two sides       *)
(* differ by at most almost_equal_tol and is an error otherwise; an        *)
(* equality that is linear with exactly one free variable has that         *)
(* variable fixed at (rhs - const) / coeff; every other case is an error.  *)
(* ---------------------------------------------------------------------- *)
PassValuesThreeWays ==
    ret.op = "pass_values" =>
        IF ret.con.nfree = 0
        THEN ret.val.action = IF SidesAgree(ret.con, ret.eq_tol) THEN "accept" ELSE "raise"
        ELSE IF ret.con.equality /\ ret.con.linear /\ ret.con.nfree = 1
        THEN SolvedForFreeVariable(ret.con, ret.val)
        ELSE ret.val.action = "raise"

(* ---------------------------------------------------------------------- *)
(* C19, amended: an inequality is an error whether or not its variables    *)
(* are fixed; an equality with every variable fixed is accepted when the   *)
(* two sides differ by at most almost_equal_tol and is an error otherwise; *)
(* an equality that is linear with exactly one free variable has that      *)
(* variable fixed at (rhs - const) / coeff; every other equality is an     *)
(* error.                                                                  *)
(* ---------------------------------------------------------------------- *)
PassValuesInequalityFirst ==
    ret.op = "pass_values" =>
        IF ~ret.con.equality THEN ret.val.action = "raise"
        ELSE IF ret.con.nfree = 0
        THEN ret.val.action = IF SidesAgree(ret.con, ret.eq_tol) THEN "accept" ELSE "raise"
        ELSE IF ret.con.linear /\ ret.con.nfree = 1
        THEN SolvedForFreeVariable(ret.con, ret.val)
        ELSE ret.val.action = "raise"

(* pass_values has raised on an inequality whose variables are all fixed   *)
(* and whose sides agree.                                                  *)
PassValuesInequalityFirstWitness ==
    /\ ret.op = "pass_values"
    /\ ~ret.con.equality
    /\ ret.con.nfree = 0
    /\ SidesAgree(ret.con, ret.eq_tol)
    /\ ret.val.action = "raise"

(* ---------------------------------------------------------------------- *)
(* Specification: runs with valid and invalid values of the enumerated     *)
(* options                                                                 *)
(* ---------------------------------------------------------------------- *)
SelectTearMethods == {"mip", "heuristic"}

TearMethods == {"Direct", "Wegstein"}

TolTypes == {"abs", "rel"}

(* A value outside each of the enumerations.                               *)
Invalid == "invalid"

(* The options of the runs of SpecOptions: any tear_method and tol_type,   *)
(* valid or not, any run_first_pass, solve_tears and iterLim; every        *)
(* variable has the value 0 and none is fixed.                             *)
EnumOptions(g) ==
    {[run_first_pass |-> f, solve_tears |-> s, iterLim |-> i, tear_method |-> m,
      tol_type |-> t, guesses |-> AllValues(g, None), default_guess |-> None,
      user_fixed |-> {}, dest_init |-> AllValues(g, 0)] :
        f \in BOOLEAN, s \in BOOLEAN, i \in 0..OptionMaxIter,
        m \in TearMethods \cup {Invalid}, t \in TolTypes \cup {Invalid}}

NextOptions ==
    \/ \E u, v \in 1..OptionMaxNodes : AddArc(u, v, OptionMaxNodes, OptionMaxEdges)
    \/ \E o \in TearSetOptions(G, OptionMaxEdges), m \in SelectTearMethods \cup {Invalid} :
          run_begin(o, m, EnumOptions(G))
    \/ run_order_step
    \/ run_after_first_pass
    \/ run_next_scc
    \/ solve_tear_direct_step
    \/ solve_tear_wegstein_step

SpecOptions == Init /\ [][NextOptions]_vars

(* ---------------------------------------------------------------------- *)
(* C20: run fails whenever select_tear_method, tear_method or tol_type     *)
(* holds a value outside its enumerated set, for every graph and every     *)
(* setting of the other options: it never returns then.                    *)
(* ---------------------------------------------------------------------- *)
InvalidOptionFails ==
    run.pc = "returned" =>
        /\ run.select_tear_method \in SelectTearMethods
        /\ run.tear_method \in TearMethods
        /\ run.tol_type \in TolTypes

(* An invalid select_tear_method fails the run when no tear set is given.  *)
InvalidSelectTearMethodFailsWhenSelecting ==
    (run.pc # "idle" /\ ~run.option.given /\ run.select_tear_method \notin SelectTearMethods) =>
        run.pc = "raised"

(* An invalid tear_method fails the run when the tears are solved.         *)
InvalidTearMethodFailsWhenSolving ==
    (run.pc = "returned" /\ run.solve_tears /\ Len(run.tset) > 0) => run.tear_method \in TearMethods

(* ---------------------------------------------------------------------- *)
(* Specification: the upper bound of the tear search on built graphs       *)
(* ---------------------------------------------------------------------- *)
Call_tear_upper_bound ==
    /\ ret = NoCall
    /\ run = NoRun
    /\ G.n > 0
    /\ ret' = [op |-> "tear_upper_bound", val |-> tear_upper_bound(G)]
    /\ UNCHANGED <<G, run>>

NextBound ==
    \/ \E u, v \in 1..TearMaxNodes : AddArc(u, v, TearMaxNodes, TearMaxEdges)
    \/ Call_tear_upper_bound

SpecBound == Init /\ [][NextBound]_vars

(* ---------------------------------------------------------------------- *)
(* C21: for every graph the edge set returned by tear_upper_bound contains *)
(* at least one edge of every elementary cycle, self-loops included.       *)
(* ---------------------------------------------------------------------- *)
TearUpperBoundCoversCycles ==
    ret.op = "tear_upper_bound" =>
        \A c \in ElementaryCycles(G) : c \cap Range(ret.val) # {}

(* It contains an edge of every elementary cycle through two or more       *)
(* nodes.                                                                  *)
TearUpperBoundCoversLongCycles ==
    ret.op = "tear_upper_bound" =>
        \A c \in ElementaryCycles(G) : Cardinality(c) > 1 => c \cap Range(ret.val) # {}

(* ---------------------------------------------------------------------- *)
(* Specification: compute_err on vectors of values                         *)
(* ---------------------------------------------------------------------- *)
(* The vectors svals and dvals: equal lengths up to ErrMaxLen, elements    *)
(* from -ErrMaxVal to ErrMaxVal.                                           *)
ErrVectors(len) == {List(v) : v \in [1..len -> (0 - ErrMaxVal)..ErrMaxVal]}

Call_compute_err(svals, dvals, tol_type) ==
    /\ ret = NoCall
    /\ run = NoRun
    /\ ret' = [op |-> "compute_err", svals |-> svals, dvals |-> dvals, tol_type |-> tol_type,
               val |-> compute_err(svals, dvals, tol_type)]
    /\ UNCHANGED <<G, run>>

NextErr ==
    \E len \in 1..ErrMaxLen : \E svals, dvals \in ErrVectors(len), tol_type \in TolTypes \cup {Invalid} :
        Call_compute_err(svals, dvals, tol_type)

SpecErr == Init /\ [][NextErr]_vars

(* The fraction f is a / b.                                                *)
IsQuotient(f, a, b) == f[2] # 0 /\ f[1] * b = a * f[2]

LimbBase == 10000

RECURSIVE mag_norm(_)
mag_norm(a) == IF a # <<>> /\ a[Len(a)] = 0 THEN mag_norm(SubSeq(a, 1, Len(a) - 1)) ELSE a

RECURSIVE mag_add(_, _, _)
mag_add(a, b, carry) ==
    IF a = <<>> /\ b = <<>> THEN (IF carry = 0 THEN <<>> ELSE <<carry>>)
    ELSE LET s == (IF a = <<>> THEN 0 ELSE a[1]) + (IF b = <<>> THEN 0 ELSE b[1]) + carry
         IN <<s % LimbBase>> \o mag_add(IF a = <<>> THEN a ELSE Tail(a),
                                        IF b = <<>> THEN b ELSE Tail(b), s \div LimbBase)

RECURSIVE mag_sub(_, _, _)
(* a - b - borrow for a >= b + borrow                                      *)
mag_sub(a, b, borrow) ==
    IF a = <<>> THEN <<>>
    ELSE LET d == a[1] - (IF b = <<>> THEN 0 ELSE b[1]) - borrow
         IN <<(d + LimbBase) % LimbBase>> \o mag_sub(Tail(a), IF b = <<>> THEN b ELSE Tail(b),
                                                     IF d < 0 THEN 1 ELSE 0)

RECURSIVE mag_cmp(_, _)
(* -1, 0 or 1 as a is below, equal to or above b                           *)
mag_cmp(a, b) ==
    IF Len(a) # Len(b) THEN (IF Len(a) < Len(b) THEN 0 - 1 ELSE 1)
    ELSE IF a = <<>> THEN 0
    ELSE IF a[Len(a)] # b[Len(b)] THEN (IF a[Len(a)] < b[Len(b)] THEN 0 - 1 ELSE 1)
    ELSE mag_cmp(SubSeq(a, 1, Len(a) - 1), SubSeq(b, 1, Len(b) - 1))

RECURSIVE mag_scale(_, _, _)
(* a * k + carry for a small k                                             *)
mag_scale(a, k, carry) ==
    IF a = <<>> THEN (IF carry = 0 THEN <<>> ELSE <<carry>>)
    ELSE LET s == a[1] * k + carry
         IN <<s % LimbBase>> \o mag_scale(Tail(a), k, s \div LimbBase)

(* a / 2, exact for an even a                                              *)
mag_half(a) ==
    mag_norm(List([i \in 1..Len(a) |->
        (a[i] + (IF i < Len(a) /\ a[i + 1] % 2 = 1 THEN LimbBase ELSE 0)) \div 2]))

big(n) == [sign |-> IF n > 0 THEN 1 ELSE IF n < 0 THEN 0 - 1 ELSE 0,
           mag |-> IF n = 0 THEN <<>> ELSE <<Abs(n)>>]

big_add(x, y) ==
    IF x.sign = 0 THEN y
    ELSE IF y.sign = 0 THEN x
    ELSE IF x.sign = y.sign THEN [sign |-> x.sign, mag |-> mag_add(x.mag, y.mag, 0)]
    ELSE LET c == mag_cmp(x.mag, y.mag)
         IN IF c = 0 THEN big(0)
            ELSE IF c > 0 THEN [sign |-> x.sign, mag |-> mag_norm(mag_sub(x.mag, y.mag, 0))]
            ELSE [sign |-> y.sign, mag |-> mag_norm(mag_sub(y.mag, x.mag, 0))]

(* x * k for a small integer k                                             *)
big_scale(x, k) ==
    IF k = 0 \/ x.sign = 0 THEN big(0)
    ELSE [sign |-> IF k > 0 THEN x.sign ELSE 0 - x.sign, mag |-> mag_scale(x.mag, Abs(k), 0)]

big_sub(x, y) == big_add(x, big_scale(y, 0 - 1))

big_abs(x) == [x EXCEPT !.sign = Abs(x.sign)]

big_even(x) == x.sign = 0 \/ x.mag[1] % 2 = 0

big_half(x) == IF x.sign = 0 THEN x ELSE [sign |-> x.sign, mag |-> mag_half(x.mag)]

RECURSIVE big_pow2(_)
big_pow2(k) == IF k = 0 THEN big(1) ELSE big_scale(big_pow2(k - 1), 2)

(* ---------------------------------------------------------------------- *)
(* Specification: the tear iterations on the cycle A -> B -> A of gain 3/2 *)
(* ---------------------------------------------------------------------- *)
(* options["iterLim"]                                                      *)
iterLim == 40

(* options["tol"], 1.0E-5, in the unit of the values: the unit is small    *)
(* enough for every value of iterLim + 2 evaluations of the units to be a  *)
(* whole number.                                                           *)
tol == big_pow2(iterLim + 2)

(* function(unit) over the cycle with the edge B -> A torn: A triples its  *)
(* inlet x, the value passes along A -> B, and B halves its inlet and adds *)
(* offset; the result is the source value of the tear edge.               *)
gain_function(x, offset) == big_add(big_half(big_scale(x, 3)), offset)

(* "numpy.max(numpy.abs(err)) < tol" for the one tear variable             *)
gain_within_tol(gofx, x) == big_sub(big_abs(big_sub(gofx, x)), tol).sign < 0

(* accel of solve_tear_wegstein for the tear variable: whole is FALSE when *)
(* the factor is left unclipped and is no whole number.                    *)
gain_accel(num, denom) ==
    IF denom.sign = 0 \/ num.sign = 0 THEN [whole |-> TRUE, val |-> 0]
    ELSE IF num = denom THEN [whole |-> TRUE, val |-> accel_max]
    ELSE LET d == big_sub(num, denom)
             p == IF d.sign > 0 THEN num ELSE big_scale(num, 0 - 1)
             q == big_abs(d)
         IN IF big_sub(p, big_scale(q, accel_min)).sign < 0 THEN [whole |-> TRUE, val |-> accel_min]
            ELSE IF big_sub(p, big_scale(q, accel_max)).sign > 0 THEN [whole |-> TRUE, val |-> accel_max]
            ELSE IF \E k \in accel_min..accel_max : p = big_scale(q, k)
            THEN [whole |-> TRUE, val |-> CHOOSE k \in accel_min..accel_max : p = big_scale(q, k)]
            ELSE [whole |-> FALSE, val |-> 0]

(* run with the first pass done from the guess x0 for the inlet of A, up   *)
(* to the loop of the tear method: solve_tear_wegstein checks for          *)
(* convergence and does one direct step.                                   *)
Call_solve_tear_gain(tear_method, guess, offset) ==
    /\ ret = NoCall
    /\ run = NoRun
    /\ LET x0 == big_scale(tol, guess)
           c  == big_scale(tol, offset)
           gofx == gain_function(x0, c)
           st == [op |-> "solve_tear_gain", tear_method |-> tear_method, offset |-> c,
                  x0 |-> x0, x |-> x0, gofx |-> gofx, x_prev |-> x0, gofx_prev |-> gofx,
                  itercount |-> 0, accel |-> 0, status |-> "iterating"]
       IN ret' = IF tear_method = "Direct" THEN st
                 ELSE IF gain_within_tol(gofx, x0) THEN [st EXCEPT !.status = "converged"]
                 ELSE [st EXCEPT !.x = gofx]
    /\ UNCHANGED <<G, run>>

(* One turn of the loop of solve_tear_direct.                              *)
solve_tear_direct_gain ==
    /\ ret.op = "solve_tear_gain"
    /\ ret.tear_method = "Direct"
    /\ ret.status = "iterating"
    /\ ret' = IF gain_within_tol(ret.gofx, ret.x) THEN [ret EXCEPT !.status = "converged"]
              ELSE IF ret.itercount >= iterLim THEN [ret EXCEPT !.status = "cap"]
              ELSE IF ~big_even(big_scale(ret.gofx, 3)) THEN [ret EXCEPT !.status = "inexact"]
              ELSE [ret EXCEPT !.x = ret.gofx, !.itercount = @ + 1,
                               !.gofx = gain_function(ret.gofx, ret.offset)]
    /\ UNCHANGED <<G, run>>

(* One turn of the loop of solve_tear_wegstein.                            *)
solve_tear_wegstein_gain ==
    /\ ret.op = "solve_tear_gain"
    /\ ret.tear_method = "Wegstein"
    /\ ret.status = "iterating"
    /\ LET gofx == gain_function(ret.x, ret.offset)
           accel == gain_accel(big_sub(gofx, ret.gofx_prev), big_sub(ret.x, ret.x_prev))
           st == [ret EXCEPT !.itercount = @ + 1, !.gofx = gofx]
       IN ret' = IF ~big_even(big_scale(ret.x, 3)) THEN [ret EXCEPT !.status = "inexact"]
                 ELSE IF gain_within_tol(gofx, ret.x) THEN [st EXCEPT !.status = "converged"]
                 ELSE IF st.itercount > iterLim THEN [st EXCEPT !.status = "cap"]
                 ELSE IF ~accel.whole THEN [st EXCEPT !.status = "inexact"]
                 ELSE [st EXCEPT !.x_prev = ret.x, !.gofx_prev = gofx, !.accel = accel.val,
                                 !.x = big_add(big_scale(ret.x, accel.val),
                                               big_scale(gofx, 1 - accel.val))]
    /\ UNCHANGED <<G, run>>

NextGain ==
    \/ \E tear_method \in TearMethods :
       \E guess \in (0 - GainMaxGuess)..GainMaxGuess, offset \in (0 - GainMaxOffset)..GainMaxOffset :
          Call_solve_tear_gain(tear_method, guess, offset)
    \/ solve_tear_direct_gain
    \/ solve_tear_wegstein_gain

SpecGain == Init /\ [][NextGain]_vars


GainExact == ret.op = "solve_tear_gain" => ret.status # "inexact"

(* Every Wegstein update on the cycle has its factor clipped to accel_max, *)
(* which makes it a direct substitution; and both methods converge only    *)
(* from a guess that is within tol of the fixed point, before any update.  *)
GainUpdatesAreDirect ==
    ret.op = "solve_tear_gain" =>
        /\ ret.accel = accel_max
        /\ ret.status = "converged" => ret.itercount = 0 /\ gain_within_tol(ret.gofx, ret.x0)
        /\ (ret.tear_method = "Wegstein" /\ ret.itercount > 0) => ret.x = ret.gofx_prev

(* ---------------------------------------------------------------------- *)
(* Specification: the updates of solve_tear_wegstein for one tear variable *)
(* ---------------------------------------------------------------------- *)
AccelValues == (0 - AccelMaxVal)..AccelMaxVal

(* The check of the values of the first pass and the update that follows   *)
(* it: "x_prev = x; gofx_prev = gofx; x = gofx".                           *)
Call_wegstein_first(gofx, x) ==
    /\ ret = NoCall
    /\ run = NoRun
    /\ ret' = [op |-> "wegstein_first", gofx |-> gofx, x |-> x,
               converged |-> within_tol(compute_err(<<gofx>>, <<x>>, "abs").err),
               val |-> <<gofx, 1>>]
    /\ UNCHANGED <<G, run>>

(* An update of the loop.                                                  *)
Call_wegstein_update(gofx, gofx_prev, x, x_prev) ==
    /\ ret = NoCall
    /\ run = NoRun
    /\ ret' = [op |-> "wegstein_update", gofx |-> gofx, gofx_prev |-> gofx_prev,
               x |-> x, x_prev |-> x_prev,
               accel |-> wegstein_accel(gofx - gofx_prev, x - x_prev),
               val |-> wegstein_update(gofx, gofx_prev, x, x_prev)]
    /\ UNCHANGED <<G, run>>

NextAccel ==
    \/ \E gofx, x \in AccelValues : Call_wegstein_first(gofx, x)
    \/ \E gofx, gofx_prev, x, x_prev \in AccelValues : Call_wegstein_update(gofx, gofx_prev, x, x_prev)

SpecAccel == Init /\ [][NextAccel]_vars

(* ---------------------------------------------------------------------- *)
(* C24: in every Wegstein update the acceleration factor of a component    *)
(* lies in accel_min..accel_max and the new x is a finite number; a        *)
(* component whose x equals x_prev gets slope 0 and the new x gofx; and    *)
(* the first update after the initial check is a direct substitution.      *)
(* ---------------------------------------------------------------------- *)
WegsteinAccelBounded ==
    /\ ret.op = "wegstein_update" =>
          /\ ret.accel[2] > 0
          /\ accel_min * ret.accel[2] <= ret.accel[1]
          /\ ret.accel[1] <= accel_max * ret.accel[2]
          /\ ret.val[2] > 0
          /\ ret.val[1] * ret.accel[2]
                = (ret.accel[1] * ret.x + (ret.accel[2] - ret.accel[1]) * ret.gofx) * ret.val[2]
          /\ ret.x = ret.x_prev => ret.accel[1] = 0 /\ IsQuotient(ret.val, ret.gofx, 1)
    /\ ret.op = "wegstein_first" => IsQuotient(ret.val, ret.gofx, 1)

(* An update of a component whose x equals x_prev and whose gofx has       *)
(* changed.                                                                *)
WegsteinAccelBoundedWitness ==
    /\ ret.op = "wegstein_update"
    /\ ret.x = ret.x_prev
    /\ ret.gofx # ret.gofx_prev
    /\ ret.val = <<ret.gofx, 1>>

(* An update with a factor strictly between accel_min and accel_max.       *)
WegsteinAccelUnclippedWitness ==
    ret.op = "wegstein_update" /\ ret.accel = <<0 - 1, 2>> /\ ret.val[1] # ret.gofx * ret.val[2]

(* An update with a factor clipped to accel_min.                           *)
WegsteinAccelClippedBelowWitness ==
    /\ ret.op = "wegstein_update"
    /\ ret.accel = <<accel_min, 1>>
    /\ (ret.gofx - ret.gofx_prev) * 7 = (ret.x - ret.x_prev) * 6

(* ---------------------------------------------------------------------- *)
(* C25: in the tear phase of run a tear method and its calls of            *)
(* function(unit) are carried out only for SCCs of more than one node.     *)
(* ---------------------------------------------------------------------- *)
TearPhaseOnlyBigSCCs ==
    (run.sccIndex > 0 /\ Len(run.sccNodes[run.sccIndex]) = 1) =>
        \A k \in 1..Len(run.log) : run.log[k].ev # "call"

(* ---------------------------------------------------------------------- *)
(* Specification: adj_lists on built graphs                                *)
(* ---------------------------------------------------------------------- *)
(* The lists of distinct nodes of g a caller may pass as nodes.            *)
NodeLists(g) ==
    {List(s) : s \in {f \in UNION {[1..k -> 1..g.n] : k \in 0..g.n} :
                         \A i, j \in DOMAIN f : i # j => f[i] # f[j]}}

Call_adj_lists(excludeEdges, nodes, multi) ==
    /\ ret = NoCall
    /\ run = NoRun
    /\ G.n > 0
    /\ ret' = [op |-> "adj_lists", excludeEdges |-> excludeEdges, nodes |-> nodes, multi |-> multi,
               val |-> adj_lists(G, excludeEdges, nodes, multi)]
    /\ UNCHANGED <<G, run>>

NextAdj ==
    \/ \E u, v \in 1..AdjMaxNodes : AddArc(u, v, AdjMaxNodes, AdjMaxEdges)
    \/ \E excludeEdges \in EdgeLists(G, AdjMaxEdges), nodes \in NodeLists(G), multi \in BOOLEAN :
          Call_adj_lists(excludeEdges, nodes, multi)

SpecAdj == Init /\ [][NextAdj]_vars

(* How many times x appears in the list s.                                 *)
Count(s, x) == Cardinality({k \in 1..Len(s) : s[k] = x})

(* The edges of g that are not excluded and go from u to v.                *)
KeptEdges(g, excludeEdges, u, v) ==
    {e \in 1..number_of_edges(g) : e \notin Range(excludeEdges) /\ g.edges[e][1] = u /\ g.edges[e][2] = v}

(* ---------------------------------------------------------------------- *)
(* C26: adj_lists(G, excludeEdges, nodes, multi) returns adjacency over    *)
(* the positions of nodes: with multi false, v appears in adj[u] once if   *)
(* there is a non-excluded edge u -> v between nodes of the list and not   *)
(* at all otherwise; with multi true adj[u] has one (v, key) entry per     *)
(* such edge; adjR is the transpose of adj in both modes.                  *)
(* ---------------------------------------------------------------------- *)
AdjListsCorrect ==
    ret.op = "adj_lists" =>
        LET nodes == ret.nodes
            N == Len(nodes)
            adj == ret.val.adj
            adjR == ret.val.adjR
        IN /\ ret.val.i2n = nodes
           /\ Len(adj) = N
           /\ Len(adjR) = N
           /\ \A i, j \in 1..N :
                 LET kept == KeptEdges(G, ret.excludeEdges, nodes[i], nodes[j])
                 IN IF ret.multi
                    THEN /\ \A e \in kept : Count(adj[i], <<j, G.edges[e][3]>>) = 1
                         /\ Cardinality({k \in 1..Len(adj[i]) : adj[i][k][1] = j}) = Cardinality(kept)
                         /\ \A k \in 1..Len(adj[i]) : Count(adjR[adj[i][k][1]], <<i, adj[i][k][2]>>) = 1
                         /\ Cardinality({k \in 1..Len(adjR[j]) : adjR[j][k][1] = i}) = Cardinality(kept)
                    ELSE /\ Count(adj[i], j) = (IF kept # {} THEN 1 ELSE 0)
                         /\ Count(adjR[j], i) = Count(adj[i], j)
           /\ \A i \in 1..N : \A k \in 1..Len(adj[i]) :
                 (IF ret.multi THEN adj[i][k][1] ELSE adj[i][k]) \in 1..N
           /\ \A i \in 1..N : \A k \in 1..Len(adjR[i]) :
                 (IF ret.multi THEN adjR[i][k][1] ELSE adjR[i][k]) \in 1..N

(* With multi false, the first of two parallel edges is excluded and the   *)
(* neighbour is kept.                                                      *)
AdjListsCorrectWitness ==
    /\ ret.op = "adj_lists"
    /\ ~ret.multi
    /\ G.edges = <<<<1, 2, 0>>, <<1, 2, 1>>>>
    /\ ret.excludeEdges = <<1>>
    /\ ret.nodes = <<2, 1>>
    /\ ret.val.adj = <<<<>>, <<1>>>>
    /\ ret.val.adjR = <<<<2>>, <<>>>>

(* ---------------------------------------------------------------------- *)
(* Specification: calculation orders from given roots                      *)
(* ---------------------------------------------------------------------- *)
(* calculation_order(G, roots, nodes) with tset in the cache; the list of  *)
(* all nodes stands for nodes=None.                                        *)
Call_calculation_order_roots(tset, roots, nodes) ==
    /\ ret = NoCall
    /\ run = NoRun
    /\ G.n > 0
    /\ ret' = [op |-> "calculation_order", tset |-> tset, roots |-> [given |-> TRUE, nodes |-> roots],
               nodes |-> nodes,
               val |-> calculation_order(G, tset, [given |-> TRUE, nodes |-> roots], nodes)]
    /\ UNCHANGED <<G, run>>

NextRoots ==
    \/ \E u, v \in 1..RootsMaxNodes : AddArc(u, v, RootsMaxNodes, RootsMaxEdges)
    \/ \E tset \in EdgeLists(G, RootsMaxTears), nodes \in NodeLists(G) :
       \E roots \in {r \in NodeLists(G) : Len(r) \in 1..RootsMaxRoots /\ Range(r) \subseteq Range(nodes)} :
          Call_calculation_order_roots(tset, roots, nodes)

SpecRoots == Init /\ [][NextRoots]_vars

(* The roots and the nodes they reach along edges that are not torn and    *)
(* lie between nodes of the list.                                          *)
RootsAndDescendants(g, tset, roots, nodes) ==
    LET R == Closure({a \in Arcs(g, Range(tset)) : {a[1], a[2]} \subseteq Range(nodes)}, g.n)
    IN Range(roots) \cup {v \in 1..g.n : \E r \in Range(roots) : <<r, v>> \in R}

(* The order is one of the roots and their descendants.                    *)
OrderOfRoots(order, g, tset, roots, nodes) ==
    /\ \A k \in 1..Len(order) : Range(order[k]) \subseteq Range(nodes)
    /\ Len(order) >= 1
    /\ Range(order[1]) = Range(roots)
    /\ UNION {Range(order[k]) : k \in 1..Len(order)} = RootsAndDescendants(g, tset, roots, nodes)
    /\ \A v \in 1..g.n : Occurrences(order, v) <= 1

(* ---------------------------------------------------------------------- *)
(* C27: calculation_order(G, roots, nodes) with roots given returns levels *)
(* that contain only members of nodes, whose level 0 is exactly the roots, *)
(* and that contain exactly the roots and their descendants reachable      *)
(* without tear edges, each node once; also when roots and nodes are both  *)
(* supplied and when one root is a descendant of another.                  *)
(* ---------------------------------------------------------------------- *)
CalculationOrderFromRoots ==
    (ret.op = "calculation_order" /\ IsDAG(G, Range(ret.tset))) =>
        /\ ret.val.status = "ok"
        /\ OrderOfRoots(ret.val.order, G, ret.tset, ret.roots.nodes, ret.nodes)

(* The same with nodes=None and no root a descendant of another.           *)
CalculationOrderFromSeparateRoots ==
    (/\ ret.op = "calculation_order"
     /\ IsDAG(G, Range(ret.tset))
     /\ ret.nodes = idx_to_node(G)
     /\ \A r, s \in Range(ret.roots.nodes) : <<r, s>> \notin Reach(G, Range(ret.tset))) =>
        /\ ret.val.status = "ok"
        /\ OrderOfRoots(ret.val.order, G, ret.tset, ret.roots.nodes, ret.nodes)

(* ---------------------------------------------------------------------- *)
(* Specification: the cached views of one SequentialDecomposition object   *)
(* ---------------------------------------------------------------------- *)
(* The views of a graph that are computed from the graph alone.            *)
ViewKeys == {"idx_to_node", "node_to_idx", "idx_to_edge", "edge_to_idx", "arc_to_edge"}

(* What fcn(G) computes for a view; an arc is named by its edge.           *)
view(g, key) ==
    IF key = "idx_to_node" THEN idx_to_node(g)
    ELSE IF key = "node_to_idx" THEN List([node \in 1..g.n |-> node_to_idx(g, node)])
    ELSE IF key = "idx_to_edge" THEN idx_to_edge(g)
    ELSE IF key = "edge_to_idx" THEN [e \in Range(g.edges) |-> edge_to_idx(g, e)]
    ELSE [e \in Range(g.edges) |-> e]

(* self.cache after self.cache.clear()                                     *)
EmptyCache == [key \in ViewKeys \cup {"tear_set"} |-> [has |-> FALSE, val |-> <<>>]]

(* cacher(key, fcn, args): fresh is what fcn(args) returns.                *)
cacher(cache, key, fresh) ==
    IF cache[key].has THEN [val |-> cache[key].val, cache |-> cache]
    ELSE [val |-> fresh, cache |-> [cache EXCEPT ![key] = [has |-> TRUE, val |-> fresh]]]

(* The cache of the object: empty until the first call.                    *)
TheCache == IF ret = NoCall THEN EmptyCache ELSE ret.cache

(* Every view the cache holds is the view of g.                            *)
ViewsFresh(g, cache) == \A key \in ViewKeys : cache[key].has => cache[key].val = view(g, key)

(* idx_to_node(G), node_to_idx(G), idx_to_edge(G), edge_to_idx(G) or       *)
(* arc_to_edge(G)                                                          *)
Call_view(key) ==
    /\ run = NoRun
    /\ G.n > 0
    /\ \E c \in {cacher(TheCache, key, view(G, key))} :
          ret' = [op |-> "view", key |-> key, val |-> c.val, fresh |-> {view(G, key)}, cache |-> c.cache]
    /\ UNCHANGED <<G, run>>

(* tear_set(G) with the options as they are at the call, called while the  *)
(* views in the cache are those of G: the list in the cache, or the list   *)
(* fcn(G) returns, which cacher stores together with the views that fcn    *)
(* asked for; when fcn raises, those views alone are stored.               *)
Call_cached_tear_set(tear_set_option, select_tear_method) ==
    /\ run = NoRun
    /\ G.n > 0
    /\ ViewsFresh(G, TheCache)
    /\ \E outcomes \in {tear_set(G, tear_set_option, select_tear_method)} :
       \E t \in outcomes :
       \E filled \in {[key \in DOMAIN TheCache |->
                          IF key \in tear_set_cache(tear_set_option, select_tear_method, FALSE)
                          THEN cacher(TheCache, key, view(G, key)).cache[key]
                          ELSE TheCache[key]]} :
          ret' = IF TheCache["tear_set"].has
                 THEN [op |-> "view", key |-> "tear_set", val |-> TheCache["tear_set"].val,
                       fresh |-> {o.tset : o \in {x \in outcomes : x.status = "ok"}}, cache |-> TheCache]
                 ELSE IF t.status # "ok"
                 THEN [op |-> "raised", key |-> "tear_set", val |-> <<>>, fresh |-> {}, cache |-> filled]
                 ELSE [op |-> "view", key |-> "tear_set", val |-> t.tset,
                       fresh |-> {o.tset : o \in {x \in outcomes : x.status = "ok"}},
                       cache |-> [filled EXCEPT !["tear_set"] = [has |-> TRUE, val |-> t.tset]]]
    /\ UNCHANGED <<G, run>>

(* run clears the cache when it begins and when it returns.                *)
Call_cache_clear ==
    /\ run = NoRun
    /\ ret # NoCall
    /\ ret' = [op |-> "clear", key |-> "", val |-> <<>>, fresh |-> {}, cache |-> EmptyCache]
    /\ UNCHANGED <<G, run>>

(* The caller goes on with a graph that has one more arc.                  *)
OtherGraph(u, v) ==
    /\ run = NoRun
    /\ ret # NoCall
    /\ number_of_edges(G) < CacheMaxEdges
    /\ u <= Min2(G.n + 1, CacheMaxNodes)
    /\ v <= Min2(Max2(G.n, u) + 1, CacheMaxNodes)
    /\ G' = add_edge(G, u, v)
    /\ UNCHANGED <<ret, run>>

NextCache ==
    \/ \E u, v \in 1..CacheMaxNodes : AddArc(u, v, CacheMaxNodes, CacheMaxEdges)
    \/ \E u, v \in 1..CacheMaxNodes : OtherGraph(u, v)
    \/ \E key \in ViewKeys : Call_view(key)
    \/ \E o \in TearSetOptions(G, CacheMaxEdges), m \in SelectTearMethods : Call_cached_tear_set(o, m)
    \/ Call_cache_clear

SpecCache == Init /\ [][NextCache]_vars

(* ---------------------------------------------------------------------- *)
(* C28: for any sequence of calls on one object, a cached view requested   *)
(* for G equals the value freshly computed from G and the current options, *)
(* also when an earlier call since the last cache clear used a different   *)
(* graph or a different tear_set option.                                   *)
(* ---------------------------------------------------------------------- *)
CachedViewIsFresh == ret.op = "view" => ret.val \in ret.fresh

(* A view is fresh when the cache was empty at the first call for the      *)
(* graph and neither the graph nor the options changed since.              *)
CachedViewIsFreshAfterClear ==
    [][(ret.op \in {"none", "clear"} /\ ret'.op = "view") => ret'.val \in ret'.fresh]_vars

(* ---------------------------------------------------------------------- *)
(* Specification: the tears of each SCC in the tear phase of run           *)
(* ---------------------------------------------------------------------- *)
(* run up to the tears of each SCC, with options["tear_set"] None and no   *)
(* first pass: "tset = self.tear_set(G)", "self.scc_collect(G)" and, for   *)
(* each SCC, "only pass tears that are part of this SCC".                  *)
Call_run_tears(select_tear_method) ==
    /\ ret = NoCall
    /\ run = NoRun
    /\ G.n > 0
    /\ \E t \in tear_set(G, [given |-> FALSE], select_tear_method) :
       \E c \in {scc_collect(G, <<>>)} :
          ret' = [op |-> "run_tears", select_tear_method |-> select_tear_method,
                  status |-> t.status, tset |-> t.tset, sccNodes |-> c.sccNodes,
                  tears |-> IF t.status # "ok" THEN <<>>
                            ELSE List([k \in 1..Len(c.sccEdges) |-> scc_tears(t.tset, c.sccEdges[k])])]
    /\ UNCHANGED <<G, run>>

NextSccTears ==
    \/ \E u, v \in 1..SccTearMaxNodes : AddArc(u, v, SccTearMaxNodes, SccTearMaxEdges)
    \/ \E m \in SelectTearMethods : Call_run_tears(m)

SpecSccTears == Init /\ [][NextSccTears]_vars

EveryTearInOneSCCWithCycles ==
    (/\ ret.op = "run_tears"
     /\ ret.status = "ok"
     /\ (ret.select_tear_method = "heuristic" \/ ~IsDAG(G, {}))) =>
        \A e \in Range(ret.tset) :
            Cardinality({k \in 1..Len(ret.tears) : e \in Range(ret.tears[k])}) = 1

(* ---------------------------------------------------------------------- *)
(* Specification: runs on models with variables the user has fixed         *)
(* ---------------------------------------------------------------------- *)
(* The options of the runs of SpecFixed: either tear method, a guess or    *)
(* none for each inlet port, a default guess, and at most one variable     *)
(* that is fixed when run is called.                                       *)
FixedOptions(g) ==
    {[run_first_pass |-> f, solve_tears |-> TRUE, iterLim |-> i, tear_method |-> m,
      tol_type |-> "abs", guesses |-> List(gs), default_guess |-> DefaultValue,
      user_fixed |-> uf, dest_init |-> List(dv)] :
        f \in BOOLEAN, i \in 0..FixedMaxIter, m \in TearMethods,
        gs \in [1..number_of_edges(g) -> {None, GuessValue}],
        dv \in [1..number_of_edges(g) -> {0, 1}],
        uf \in {S \in SUBSET PortVars(g) : Cardinality(S) <= 1}}

NextFixed ==
    \/ \E u, v \in 1..FixedMaxNodes : AddArc(u, v, FixedMaxNodes, FixedMaxEdges)
    \/ \E o \in TearSetOptions(G, FixedMaxEdges) : run_begin(o, "heuristic", FixedOptions(G))
    \/ run_order_step
    \/ run_after_first_pass
    \/ run_next_scc
    \/ solve_tear_direct_step
    \/ solve_tear_wegstein_step

SpecFixed == Init /\ [][NextFixed]_vars

(* The value of a variable of a port.                                      *)
VarValue(st, var) == IF var[1] = "src" THEN st.src_val[var[2]] ELSE st.dest_val[var[2]]

(* ---------------------------------------------------------------------- *)
(* C30: a variable that was fixed when run was called is never freed and   *)
(* never given a new value by guess loading, inlet loading, arc            *)
(* propagation or the Wegstein tear update, at any point of the run.       *)
(* ---------------------------------------------------------------------- *)
UserFixedUntouched ==
    [][\A var \in run.user_fixed :
          var \in run'.fixed /\ VarValue(run', var) = VarValue(run, var)]_vars

(* A Wegstein iteration has run on a tear edge with a guess whose inlet    *)
(* variable the user has fixed at another value.                           *)
UserFixedUntouchedWitness ==
    /\ run.tear_method = "Wegstein"
    /\ run.pc = "tear"
    /\ run.itercount >= 1
    /\ \E e \in Range(run.tears) :
          /\ DestVar(e) \in run.user_fixed
          /\ run.guesses[e] # None
          /\ run.guesses[e] # run.dest_val[e]
====
